---------------------------- MODULE Spec2Model ----------------------------
(***************************************************************************)
(* Model of the generated-script validation, repair and rendering hand-off *)
(* of AnSci (backend/ansci/verify.py, animate.py, workflow.py, render.py). *)
(*                                                                         *)
(* A script is represented by the facts the validators read from its text  *)
(* and its syntax tree; every validator is an operator over those facts,   *)
(* computed the way the Python code computes it.                           *)
(***************************************************************************)
EXTENDS Integers, Sequences, FiniteSets, TLC

(***************************************************************************)
(* Bounds of the model.                                                    *)
(***************************************************************************)
\* longest sequence of name events (bindings / references) in a script body
MaxEvents == 2
\* largest max_attempts handed to validate_and_regenerate_manim_code
MaxAttemptsBound == 3
\* largest number of outline blocks of one workflow run
MaxBlocks == 2

(***************************************************************************)
(* Scripts.                                                                *)
(***************************************************************************)
\* names that occur in the modelled scripts: two ordinary names, the owner
\* reference cls, an underscore-prefixed name, a name of the Manim
\* allow-list, and a name of the "common pattern" list
Names == {"x", "y", "cls", "_t", "Text", "color"}

\* what the syntax-tree walk of validate_undefined_variables meets, in the
\* order NodeVisitor meets it:
\*   import  - an alias of Import / ImportFrom             (visit_Import*)
\*   def     - the name of a ClassDef / FunctionDef        (visit_ClassDef)
\*   arg     - a positional parameter, node.args.args      (visit_FunctionDef)
\*   assign  - a Name (or Tuple-of-Name) target of Assign / AnnAssign
\*   vararg  - *args, **kwargs or a keyword-only parameter (bound by Python,
\*             met by no visit_ method)
\*   store   - any other binding Name: the target of for / with / a
\*             comprehension / except ... as (ctx Store, no visit_ method)
\*   load    - a Name with ctx Load: a reference
EventKinds == {"import", "def", "arg", "assign", "vararg", "store", "load"}

Events == [kind : EventKinds, name : Names]

RECURSIVE SeqsUpTo(_, _)
SeqsUpTo(S, n) ==
    IF n = 0 THEN {<<>>}
    ELSE LET shorter == SeqsUpTo(S, n - 1)
         IN  shorter \cup {Append(q, e) : q \in {r \in shorter : Len(r) = n - 1}, e \in S}

Bodies == SeqsUpTo(Events, MaxEvents)

Ev(k, n) == [kind |-> k, name |-> n]

\* bodies of the scripts the validation pipeline is run on
SampleBodies ==
    { <<>>,
      <<Ev("assign", "x"), Ev("load", "x")>>,
      <<Ev("load", "x")>>,
      <<Ev("load", "color")>> }

\* outcome of exec(compiled_code, safe_globals, safe_locals) on the script:
\* it completes, it raises the named exception, or it never returns
RunOutcomes ==
    {"ok", "ZeroDivisionError", "AttributeError", "NameError", "OtherError", "loop"}

\* outcome of importlib.import_module on the script's imports
ImportOutcomes == {"ok", "ImportError", "OtherException"}

\* a call of the script: the name called, whether it is called by bare name
\* or as an attribute (manim.Text), and how many positional and keyword
\* arguments it is given
Call(func, via, args, keywords) ==
    [func |-> func, via |-> via, args |-> args, keywords |-> keywords]

\* the calls of the sample scripts: none, or two Text() in a row
SampleCalls == {<<>>, <<Call("Text", "name", 0, 0), Call("Text", "name", 0, 0)>>}

\* klass: the text has no class, a class that does not inherit from Scene
\*        by bare name, or a class with a base named Scene
\* construct: the text has no "def construct", one outside a Scene class,
\*        or one that is a method of the Scene class
\* all scripts: a script that does not parse has only its textual facts
AllScripts ==
    { s \in [parses : BOOLEAN, klass : {"none", "other", "scene"},
             construct : {"none", "toplevel", "method"},
             imports : ImportOutcomes, body : SampleBodies, calls : SampleCalls,
             run : RunOutcomes, danger : BOOLEAN, loopText : BOOLEAN] :
        /\ s.construct = "method" => s.klass = "scene"
        /\ ~s.parses => /\ s.imports = "ok"
                        /\ s.body = <<>>
                        /\ s.calls = <<>>
                        /\ s.run = "ok" }

(***************************************************************************)
(* ValidationResult (verify.py, the dataclass).                            *)
(***************************************************************************)
None == "None"

E(msg, arg) == [msg |-> msg, arg |-> arg]

ValidationResult(v, e, w, sg, t) ==
    [is_valid |-> v, errors |-> e, warnings |-> w, suggestions |-> sg, error_type |-> t]

(***************************************************************************)
(* PythonCodeValidator: the static checks.                                 *)
(***************************************************************************)
validate_syntax(s) ==
    IF s.parses
    THEN ValidationResult(TRUE, <<>>, <<>>, <<>>, None)
    ELSE ValidationResult(FALSE, <<E("Syntax Error", "")>>, <<>>, <<>>, None)

validate_imports(s) ==
    LET errors == IF s.imports = "ImportError"
                  THEN <<E("Import error: Cannot import", "")>> ELSE <<>>
        warnings == IF s.imports = "OtherException"
                    THEN <<E("Warning importing", "")>> ELSE <<>>
    IN  ValidationResult(Len(errors) = 0, errors, warnings, <<>>, None)

has_scene_class(s) == s.klass = "scene"

has_construct_method(s) == s.klass = "scene" /\ s.construct = "method"

\* the warning of lines 443-447 needs a text without "scene", which a text
\* holding a class with a base named Scene never is
validate_manim_specific(s) ==
    LET e1 == IF has_scene_class(s) THEN <<>> ELSE <<E("Missing Scene class", "")>>
        e2 == IF has_construct_method(s) THEN <<>>
              ELSE <<E("Missing construct() method", "")>>
        errors == e1 \o e2
    IN  IF ~has_scene_class(s) \/ ~has_construct_method(s)
        THEN ValidationResult(FALSE, errors, <<>>, <<>>, None)
        ELSE ValidationResult(TRUE, errors, <<>>, <<>>, None)

dangerous_warnings(s) ==
    IF s.danger THEN <<E("Potentially unsafe operation detected", "exec(")>> ELSE <<>>

loop_warnings(s) ==
    IF s.loopText THEN <<E("Infinite loop detected - may cause execution to hang", "")>>
    ELSE <<>>

\* the scan as it would be if a match were an error
validate_execution_safety_strict(s) ==
    LET found == dangerous_warnings(s) \o loop_warnings(s)
    IN  ValidationResult(Len(found) = 0, found, <<>>, <<>>, None)

validate_execution_safety(s) ==
    ValidationResult(TRUE, <<>>, dangerous_warnings(s) \o loop_warnings(s), <<>>, None)

(***************************************************************************)
(* validate_undefined_variables.                                           *)
(***************************************************************************)
manim_names ==
    {"Scene", "Text", "MathTex", "Circle", "Square", "Rectangle", "Line", "Arrow",
     "Dot", "Write", "Create", "Transform", "FadeIn", "FadeOut",
     "ReplacementTransform", "MoveToTarget", "GrowFromCenter", "ShrinkToCenter",
     "Rotate", "Scale", "Shift", "BLUE", "RED", "GREEN", "YELLOW", "WHITE", "BLACK",
     "ORANGE", "PURPLE", "PINK", "GRAY", "BROWN", "self", "np", "LayoutManager",
     "AnimationPresets", "validate_scene", "wraps"}

builtins ==
    {"print", "len", "range", "list", "dict", "set", "tuple", "str", "int", "float",
     "bool", "True", "False", "None", "abs", "min", "max", "sum", "enumerate", "zip",
     "map", "filter", "sorted", "reversed"}

defined_names == manim_names \cup builtins

common_patterns == {"mobject", "animation", "color", "position", "duration", "rate_func"}

\* name.startswith("_") and name.lower(), on the names of the model
StartsWithUnderscore(n) == n \in {"_t"}

Lower(n) == IF n = "Text" THEN "text" ELSE n

\* the kinds of event for which NameVisitor has a visit_ method that adds
\* the name to self.defined
VisitorBinds(k) == k \in {"import", "def", "arg", "assign"}

\* one visit of NameVisitor: st = [defined, undefined]
VisitEvent(st, ev) ==
    IF VisitorBinds(ev.kind)
    THEN [st EXCEPT !.defined = @ \cup {ev.name}]
    ELSE IF ev.kind = "load" /\ ev.name \notin st.defined
         THEN [st EXCEPT !.undefined = @ \cup {ev.name}]
         ELSE st

RECURSIVE NameVisitor(_, _)
NameVisitor(body, st) ==
    IF body = <<>> THEN st
    ELSE NameVisitor(Tail(body), VisitEvent(st, Head(body)))

visitor_undefined(body) == NameVisitor(body, [defined |-> {}, undefined |-> {}]).undefined

\* the order in which the set visitor.undefined is iterated; the reports of
\* one script are listed in this order
NameOrder == <<"x", "y", "cls", "_t", "Text", "color">>

IsFlagged(n) ==
    /\ n \notin defined_names
    /\ ~(n \in {"self", "cls"} \/ StartsWithUnderscore(n))

undefined_errors(body) ==
    LET u == visitor_undefined(body)
        hit == SelectSeq(NameOrder,
                 LAMBDA n : n \in u /\ IsFlagged(n) /\ Lower(n) \notin common_patterns)
    IN  [k \in 1..Len(hit) |-> E("Undefined variable", hit[k])]

undefined_warnings(body) ==
    LET u == visitor_undefined(body)
        hit == SelectSeq(NameOrder,
                 LAMBDA n : n \in u /\ IsFlagged(n) /\ Lower(n) \in common_patterns)
    IN  [k \in 1..Len(hit) |-> E("Common Manim pattern", hit[k])]

validate_undefined_variables(s) ==
    LET errors == undefined_errors(s.body)
        suggestions == [k \in 1..Len(errors) |-> E("Define or import", errors[k].arg)]
    IN  ValidationResult(Len(errors) = 0, errors, undefined_warnings(s.body), suggestions,
                         IF errors # <<>> THEN "undefined_variables" ELSE None)

(***************************************************************************)
(* validate_type_errors.                                                   *)
(***************************************************************************)
\* TypeVisitor.visit_Call on one call: "isinstance(node.func, ast.Name)" and
\* "if not node.args"
call_error(c) ==
    IF c.via = "name" /\ c.args = 0
    THEN IF c.func \in {"Text", "MathTex"}
         THEN <<E("requires at least one argument", c.func)>>
         ELSE IF c.func \in {"Write", "Create", "FadeIn", "FadeOut"}
         THEN <<E("requires a mobject argument", c.func)>>
         ELSE <<>>
    ELSE <<>>

\* visitor.type_errors: the calls are visited in the order of the tree
RECURSIVE type_errors(_)
type_errors(calls) ==
    IF calls = <<>> THEN <<>> ELSE call_error(Head(calls)) \o type_errors(Tail(calls))

validate_type_errors(s) ==
    LET errors == type_errors(s.calls)
        suggestions == IF errors # <<>>
                       THEN <<E("Check function argument types and order", ""),
                              E("Ensure all variables are properly initialized before use", ""),
                              E("Verify that objects have the expected methods and attributes", "")>>
                       ELSE <<>>
    IN  ValidationResult(Len(errors) = 0, errors, <<>>, suggestions,
                         IF errors # <<>> THEN "type_error" ELSE None)

(***************************************************************************)
(* validate_runtime_errors: what it returns for each way exec can end.     *)
(***************************************************************************)
critical_faults == {"ZeroDivisionError", "AttributeError", "NameError"}

fault_suggestion(f) ==
    IF f = "AttributeError" THEN E("Check that objects have the required methods/attributes", "")
    ELSE IF f = "NameError" THEN E("Check that all variables are defined before use", "")
    ELSE E("Check for division by zero", "")

\* how: "ok" (exec returned), an exception class name raised by exec in the
\* calling thread, or "TimeoutError" raised in the calling thread
runtime_outcome(how) ==
    LET errors == IF how = "TimeoutError"
                  THEN <<E("Code execution timed out - possible infinite loop", "")>>
                  ELSE IF how \in critical_faults
                       THEN <<E("Runtime error", how)>>
                       ELSE <<>>
        warnings == IF how \notin critical_faults \cup {"ok", "TimeoutError"}
                    THEN <<E("Potential runtime issue", how)>> ELSE <<>>
        suggestions == IF how = "TimeoutError"
                       THEN <<E("Check for infinite loops or very long operations", "")>>
                       ELSE IF how \in critical_faults THEN <<fault_suggestion(how)>>
                       ELSE <<>>
    IN  ValidationResult(Len(errors) = 0, errors, warnings, suggestions,
                         IF errors # <<>> THEN "runtime_error" ELSE None)

\* the outer "except Exception" of validate_runtime_errors
runtime_validation_failed ==
    ValidationResult(FALSE, <<E("Runtime validation failed", "")>>, <<>>, <<>>,
                     "validation_error")

(***************************************************************************)
(* validate_generated_manim_code, static path: combining the seven results *)
(***************************************************************************)
primary_error_type(syn, imp, man, saf, und, typ, run) ==
    IF syn.errors # <<>> THEN "syntax_error"
    ELSE IF und.errors # <<>> THEN "undefined_variables"
    ELSE IF typ.errors # <<>> THEN "type_error"
    ELSE IF run.errors # <<>> THEN "runtime_error"
    ELSE IF imp.errors # <<>> THEN "import_error"
    ELSE IF man.errors # <<>> THEN "manim_error"
    ELSE IF saf.errors # <<>> THEN "safety_error"
    ELSE None

\* the combination as it would be if validity were taken from the checks
\* that set a primary error type of their own
combine_results_partial(syn, imp, man, saf, und, typ, run) ==
    LET all_errors == syn.errors \o imp.errors \o man.errors \o saf.errors
                      \o und.errors \o typ.errors \o run.errors
        all_warnings == syn.warnings \o imp.warnings \o man.warnings \o saf.warnings
                        \o und.warnings \o typ.warnings \o run.warnings
    IN  ValidationResult(und.is_valid /\ typ.is_valid /\ run.is_valid, all_errors,
                         all_warnings, <<>>,
                         primary_error_type(syn, imp, man, saf, und, typ, run))

combine_results(syn, imp, man, saf, und, typ, run) ==
    LET all_errors == syn.errors \o imp.errors \o man.errors \o saf.errors
                      \o und.errors \o typ.errors \o run.errors
        all_warnings == syn.warnings \o imp.warnings \o man.warnings \o saf.warnings
                        \o und.warnings \o typ.warnings \o run.warnings
        all_suggestions == syn.suggestions \o imp.suggestions \o man.suggestions
                           \o saf.suggestions \o und.suggestions \o typ.suggestions
                           \o run.suggestions
    IN  ValidationResult(Len(all_errors) = 0, all_errors, all_warnings, all_suggestions,
                         primary_error_type(syn, imp, man, saf, und, typ, run))

static_validation(s, run) ==
    combine_results(validate_syntax(s), validate_imports(s), validate_manim_specific(s),
                    validate_execution_safety(s), validate_undefined_variables(s),
                    validate_type_errors(s), run)

(***************************************************************************)
(* validate_manim_code_with_subprocess.                                    *)
(***************************************************************************)
\* the kinds of line the output of a failed Manim run is sorted into
LineCats == {"syntax", "import", "runtime", "manim"}

\* what running "python -m manim --dry_run" on the script can do: return 0,
\* return non-zero with output lines of the given kinds, exceed the 30 s
\* timeout of subprocess.run, or fail to run at all
SubprocessOutcomes ==
    {[how |-> "ok", lines |-> {}], [how |-> "timeout", lines |-> {}],
     [how |-> "exception", lines |-> {}]}
    \cup {[how |-> "fail", lines |-> L] : L \in SUBSET LineCats}

\* a script that does not parse cannot be run to a zero return code
SubprocessCanEnd(s, o) == o.how = "ok" => s.parses

CatOrder == <<"syntax", "import", "runtime", "manim">>

validate_manim_code_with_subprocess(o) ==
    IF o.how = "ok" THEN ValidationResult(TRUE, <<>>, <<>>, <<>>, None)
    ELSE IF o.how = "timeout"
    THEN ValidationResult(FALSE, <<E("Manim code execution timed out", "")>>, <<>>, <<>>,
                          "timeout_error")
    ELSE IF o.how = "exception"
    THEN ValidationResult(FALSE, <<E("Validation process failed", "")>>, <<>>, <<>>,
                          "validation_error")
    ELSE LET cats == SelectSeq(CatOrder, LAMBDA c : c \in o.lines)
             all_errors == [k \in 1..Len(cats) |-> E("Error line", cats[k])]
             errors == IF all_errors # <<>> THEN all_errors
                       ELSE <<E("Manim execution failed with return code", "")>>
             error_type == IF "syntax" \in o.lines THEN "syntax_error"
                           ELSE IF "import" \in o.lines THEN "import_error"
                           ELSE IF "runtime" \in o.lines THEN "runtime_error"
                           ELSE "manim_error"
         IN  ValidationResult(FALSE, errors, <<>>, <<>>, error_type)

(***************************************************************************)
(* SyncValidator (render-server/utils/sync_validator.py).  A script text   *)
(* is a sequence of tokens: "wait(" is self.wait(, "play(" is self.play(,   *)
(* "rt=" is run_time=, "nl" a line break, "sep" a separator inside a line,  *)
(* "t" a name with no value, "x" any other text.  Times are in hundredths   *)
(* of a second.                                                             *)
(***************************************************************************)
MaxOps == 3

Tok(k) == [k |-> k, v |-> 0, fmt |-> "-"]

\* a numeric literal as the script's author wrote it
Num(v) == [k |-> "num", v |-> v, fmt |-> "src"]

\* the 1.0 that stands for a duration that is missing or cannot be evaluated
DefaultTime == 100

\* the timed operations a script is written with
OpForms ==
    { <<Tok("wait("), Num(200), Tok(")")>>,
      <<Tok("wait("), Tok("t"), Tok(")")>>,
      <<Tok("wait("), Tok("nl"), Num(200), Tok(")")>>,
      <<Tok("wait("), Tok(")")>>,
      <<Tok("play("), Tok("x"), Tok(")")>>,
      <<Tok("play("), Tok("x"), Tok(","), Tok("rt="), Num(150), Tok(")")>>,
      <<Tok("play("), Tok("x"), Tok(","), Tok("rt="), Tok("t"), Tok(")")>>,
      <<Tok("play("), Tok("x"), Tok("("), Tok("t"), Tok(")"), Tok(","),
        Tok("rt="), Num(150), Tok(")")>>,
      <<Tok("play("), Tok(")")>> }

Separators == {<<Tok("nl")>>, <<Tok("sep")>>}

RECURSIVE TextsOf(_)
TextsOf(n) ==
    IF n = 0 THEN {<<>>}
    ELSE IF n = 1 THEN OpForms
    ELSE {s \o sep \o op : s \in TextsOf(n - 1), sep \in Separators, op \in OpForms}

TimingScripts == UNION {TextsOf(n) : n \in 0..MaxOps}

\* the position of the first ")" at or after p, Len(text) + 1 if there is none
FirstClose(text, p) ==
    LET closes == {q \in p..Len(text) : text[q].k = ")"}
    IN  IF closes = {} THEN Len(text) + 1
        ELSE CHOOSE q \in closes : \A r \in closes : q <= r

\* the position of the first "," or ")" at or after p
FirstCommaOrClose(text, p) ==
    LET stops == {q \in p..Len(text) : text[q].k \in {",", ")"}}
    IN  IF stops = {} THEN Len(text) + 1
        ELSE CHOOSE q \in stops : \A r \in stops : q <= r

NoMatch == [ok |-> FALSE, group |-> <<>>, end |-> 0]

\* wait_pattern = r'self\.wait\(([^)]+)\)' matched at position p
wait_pattern(text, p) ==
    LET q == FirstClose(text, p + 1)
    IN  IF p <= Len(text) /\ text[p].k = "wait(" /\ q <= Len(text) /\ q > p + 1
        THEN [ok |-> TRUE, group |-> SubSeq(text, p + 1, q - 1), end |-> q]
        ELSE NoMatch

\* play_pattern = r'self\.play\([^)]+(?:,\s*run_time\s*=\s*([^,)]+))?' matched
\* at position p: [^)]+ takes everything up to the next ")", and the optional
\* run_time part is tried where that stopped
play_pattern(text, p) ==
    LET r == FirstClose(text, p + 1) - 1
        stop == FirstCommaOrClose(text, r + 3)
        has_run_time == /\ r + 2 <= Len(text)
                        /\ text[r + 1].k = ","
                        /\ text[r + 2].k = "rt="
                        /\ stop > r + 3
    IN  IF p <= Len(text) /\ text[p].k = "play(" /\ r >= p + 1
        THEN IF has_run_time
             THEN [ok |-> TRUE, group |-> SubSeq(text, r + 3, stop - 1), end |-> stop - 1]
             ELSE [ok |-> TRUE, group |-> <<>>, end |-> r]
        ELSE NoMatch

\* float(eval(text)): a number when the text is one numeric literal, with or
\* without line breaks around it, and an exception otherwise
float_eval(g) ==
    LET s == SelectSeq(g, LAMBDA x : x.k # "nl")
    IN  IF Len(s) = 1 /\ s[1].k = "num" THEN [ok |-> TRUE, v |-> s[1].v]
        ELSE [ok |-> FALSE, v |-> 0]

\* "for match in re.finditer(wait_pattern, manim_code)", from position p on
RECURSIVE wait_times(_, _)
wait_times(text, p) ==
    IF p > Len(text) THEN <<>>
    ELSE LET m == wait_pattern(text, p)
         IN  IF m.ok
             THEN <<IF float_eval(m.group).ok THEN float_eval(m.group).v ELSE DefaultTime>>
                    \o wait_times(text, m.end + 1)
             ELSE wait_times(text, p + 1)

\* "for match in re.finditer(play_pattern, manim_code)", from position p on
RECURSIVE play_times(_, _)
play_times(text, p) ==
    IF p > Len(text) THEN <<>>
    ELSE LET m == play_pattern(text, p)
         IN  IF m.ok
             THEN <<IF m.group # <<>> /\ float_eval(m.group).ok
                    THEN float_eval(m.group).v ELSE DefaultTime>>
                    \o play_times(text, m.end + 1)
             ELSE play_times(text, p + 1)

RECURSIVE sum(_)
sum(s) == IF s = <<>> THEN 0 ELSE Head(s) + sum(Tail(s))

\* manim_code.split('\n')
RECURSIVE split(_)
split(text) ==
    LET q == CHOOSE q \in 1..Len(text) + 1 :
                 /\ q = Len(text) + 1 \/ text[q].k = "nl"
                 /\ \A r \in 1..q - 1 : text[r].k # "nl"
    IN  IF q = Len(text) + 1 THEN <<text>>
        ELSE <<SubSeq(text, 1, q - 1)>> \o split(SubSeq(text, q + 1, Len(text)))

\* "'self.wait(' in line"
contains(line, k) == \E q \in 1..Len(line) : line[q].k = k

\* re.search(wait_pattern, line)
wait_search(line) ==
    LET ps == {p \in 1..Len(line) : wait_pattern(line, p).ok}
    IN  IF ps = {} THEN NoMatch
        ELSE wait_pattern(line, CHOOSE p \in ps : \A r \in ps : p <= r)

\* re.search(play_pattern, line)
play_search(line) ==
    LET ps == {p \in 1..Len(line) : play_pattern(line, p).ok}
    IN  IF ps = {} THEN NoMatch
        ELSE play_pattern(line, CHOOSE p \in ps : \A r \in ps : p <= r)

NoEvent == [raised |-> FALSE, has |-> FALSE, type |-> "-", duration |-> 0]

\* what one turn of "for i, line in enumerate(lines)" does: an event, no
\* event, or an exception of float(eval(...))
line_event(line) ==
    IF contains(line, "wait(")
    THEN LET m == wait_search(line)
         IN  IF ~m.ok THEN NoEvent
             ELSE IF float_eval(m.group).ok
             THEN [raised |-> FALSE, has |-> TRUE, type |-> "wait",
                   duration |-> float_eval(m.group).v]
             ELSE [NoEvent EXCEPT !.raised = TRUE]
    ELSE IF contains(line, "play(")
    THEN LET m == play_search(line)
         IN  IF m.ok /\ m.group # <<>>
             THEN IF float_eval(m.group).ok
                  THEN [raised |-> FALSE, has |-> TRUE, type |-> "animation",
                        duration |-> float_eval(m.group).v]
                  ELSE [NoEvent EXCEPT !.raised = TRUE]
             ELSE [raised |-> FALSE, has |-> TRUE, type |-> "animation",
                   duration |-> DefaultTime]
    ELSE NoEvent

\* the timing breakdown as it would be if the clock advanced by the default
\* time after every event
RECURSIVE timing_events_default_step(_, _, _)
timing_events_default_step(lines, i, current_time) ==
    IF i > Len(lines) THEN <<>>
    ELSE LET e == line_event(lines[i])
         IN  IF e.has
             THEN <<[type |-> e.type, start_time |-> current_time,
                     duration |-> e.duration, line |-> i]>>
                    \o timing_events_default_step(lines, i + 1, current_time + DefaultTime)
             ELSE timing_events_default_step(lines, i + 1, current_time)

\* the timing breakdown of the lines from line i on
RECURSIVE timing_events(_, _, _)
timing_events(lines, i, current_time) ==
    IF i > Len(lines) THEN <<>>
    ELSE LET e == line_event(lines[i])
         IN  IF e.has
             THEN <<[type |-> e.type, start_time |-> current_time,
                     duration |-> e.duration, line |-> i]>>
                    \o timing_events(lines, i + 1, current_time + e.duration)
             ELSE timing_events(lines, i + 1, current_time)

TimingModel(total, waits, plays, events, err, raised) ==
    [total_duration |-> total, wait_times |-> waits, play_times |-> plays,
     timing_events |-> events, event_count |-> Len(events), error |-> err,
     raised |-> raised]

\* the body of the try block of _extract_animation_timing
extract_body(text) ==
    LET waits == wait_times(text, 1)
        plays == play_times(text, 1)
        lines == split(text)
    IN  IF \E i \in 1..Len(lines) : line_event(lines[i]).raised
        THEN TimingModel(0, <<>>, <<>>, <<>>, FALSE, TRUE)
        ELSE TimingModel(sum(waits) + sum(plays), waits, plays,
                         timing_events(lines, 1, 0), FALSE, FALSE)

\* the function as it would be without its "except Exception"
extract_animation_timing_unguarded(text) == extract_body(text)

\* _extract_animation_timing: the try block, and the empty model with an
\* 'error' entry when it raised
extract_animation_timing(text) ==
    IF extract_body(text).raised
    THEN TimingModel(0, <<>>, <<>>, <<>>, TRUE, FALSE)
    ELSE extract_body(text)

NoTiming == TimingModel(0, <<>>, <<>>, <<>>, FALSE, FALSE)

(***************************************************************************)
(* validate_sync.  Scores and factors are fractions [num, den], den > 0.   *)
(***************************************************************************)
MaxSyncPoints == 2

Frac(n, d) == [num |-> n, den |-> d]

Less(a, b) == a.num * b.den < b.num * a.den

Same(a, b) == a.num * b.den = b.num * a.den

Abs(x) == IF x < 0 THEN -x ELSE x

\* SYNC_CONFIDENCE_THRESHOLD, default '0.95'
confidence_threshold == Frac(95, 100)

\* TIMING_TOLERANCE_MS, default '100', as "timing_tolerance_ms / 1000.0"
tolerance_seconds == 10

\* "abs(animation_duration - audio_duration) > 0.5"
duration_margin == 50

\* a sync point; numeric is FALSE when its 'time' is not a number
SyncPoint(name, time, numeric) == [name |-> name, time |-> time, numeric |-> numeric]

\* the duration score as it would be without "max(0, ...)"
duration_score_unclamped(total_duration, audio_duration) ==
    IF audio_duration > 0
    THEN Frac(audio_duration - Abs(total_duration - audio_duration), audio_duration)
    ELSE Frac(0, 1)

\* "max(0, 1 - (duration_diff / audio_duration)) if audio_duration > 0 else 0"
duration_score(total_duration, audio_duration) ==
    IF audio_duration > 0
    THEN LET n == audio_duration - Abs(total_duration - audio_duration)
         IN  Frac(IF n > 0 THEN n ELSE 0, audio_duration)
    ELSE Frac(0, 1)

\* the event closest to expected_time: the first one at the least distance
closest_event(events, expected_time) ==
    CHOOSE k \in 1..Len(events) :
      /\ \A j \in 1..Len(events) :
           Abs(events[k].start_time - expected_time) <= Abs(events[j].start_time - expected_time)
      /\ \A j \in 1..k - 1 :
           Abs(events[j].start_time - expected_time) > Abs(events[k].start_time - expected_time)

\* the test as it would be with "min_distance < tolerance_seconds"
point_matched_strict(events, sp) ==
    /\ events # <<>>
    /\ Abs(events[closest_event(events, sp.time)].start_time - sp.time) < tolerance_seconds

\* the sync point has an event within the tolerance
point_matched(events, sp) ==
    /\ events # <<>>
    /\ Abs(events[closest_event(events, sp.time)].start_time - sp.time) <= tolerance_seconds

\* the entry of sync_issues for an unmatched sync point
sync_issue(events, sp) ==
    [sync_point |-> sp.name, expected_time |-> sp.time,
     has_closest |-> events # <<>>,
     closest_event_time |-> IF events = <<>> THEN 0
                            ELSE events[closest_event(events, sp.time)].start_time]

\* _validate_sync_points raises when a distance to a non-numeric time is taken
sync_points_raise(events, points) ==
    events # <<>> /\ \E k \in 1..Len(points) : ~points[k].numeric

RECURSIVE sync_issues(_, _)
sync_issues(events, points) ==
    IF points = <<>> THEN <<>>
    ELSE (IF point_matched(events, Head(points)) THEN <<>>
          ELSE <<sync_issue(events, Head(points))>>)
         \o sync_issues(events, Tail(points))

\* "valid_points / len(sync_points)", 1.0 when there are no sync points
sync_score(events, points) ==
    IF points = <<>> THEN Frac(1, 1)
    ELSE Frac(Len(points) - Len(sync_issues(events, points)), Len(points))

\* the factor as it would be if the two durations were swapped
adjustment_factor_inverted(animation_duration, audio_duration) ==
    IF animation_duration > 0 /\ audio_duration > 0
    THEN Frac(animation_duration, audio_duration)
    ELSE Frac(1, 1)

\* "audio_duration / animation_duration if animation_duration > 0 else 1.0"
adjustment_factor(animation_duration, audio_duration) ==
    IF animation_duration > 0 THEN Frac(audio_duration, animation_duration)
    ELSE Frac(1, 1)

Correction(type, factor, sync_point, adjustment) ==
    [type |-> type, factor |-> factor, sync_point |-> sync_point, adjustment |-> adjustment]

\* _generate_corrections raises on "expected_time - closest_event_time" when
\* the expected time is not a number
corrections_raise(points, issues) ==
    \E k \in 1..Len(points) : ~points[k].numeric

\* _generate_corrections
generate_corrections(timing, audio_duration, points, issues) ==
    LET f == adjustment_factor(timing.total_duration, audio_duration)
    IN  (IF Abs(timing.total_duration - audio_duration) > duration_margin
         THEN <<Correction("duration_adjustment", f, "-", 0)>> ELSE <<>>)
        \o [k \in 1..Len(issues) |->
              Correction("sync_point_adjustment", Frac(1, 1), issues[k].sync_point,
                         issues[k].expected_time - issues[k].closest_event_time)]
        \o (IF 2 * Len(issues) > Len(points)
            THEN <<Correction("global_speed_adjustment", f, "-", 0)>> ELSE <<>>)

SyncReport(c, ds, ss, timing, issues, corrections, valid, err) ==
    [confidence |-> c, duration_score |-> ds, sync_score |-> ss, timing_data |-> timing,
     sync_issues |-> issues, corrections |-> corrections, valid |-> valid, error |-> err]

\* the report of "except Exception"
failure_report ==
    SyncReport(Frac(0, 1), Frac(0, 1), Frac(0, 1), NoTiming, <<>>, <<>>, FALSE, TRUE)

\* "confidence = (duration_score * 0.4 + sync_score * 0.6)"
confidence_of(ds, ss) == Frac(4 * ds.num * ss.den + 6 * ss.num * ds.den, 10 * ds.den * ss.den)

\* "if confidence < self.confidence_threshold"
needs_corrections(c) == Less(c, confidence_threshold)

\* validate_sync(manim_code, audio_data, sync_points), from the timing model
\* that "animation_timing = self._extract_animation_timing(manim_code)" gave
validate_sync(timing, audio_duration, points) ==
    LET events == timing.timing_events
        ds == duration_score(timing.total_duration, audio_duration)
    IN  IF sync_points_raise(events, points) THEN failure_report
        ELSE LET issues == sync_issues(events, points)
                 ss == sync_score(events, points)
                 c == confidence_of(ds, ss)
             IN  IF needs_corrections(c) /\ corrections_raise(points, issues)
                 THEN failure_report
                 ELSE SyncReport(c, ds, ss, timing, issues,
                                 IF needs_corrections(c)
                                 THEN generate_corrections(timing, audio_duration, points, issues)
                                 ELSE <<>>,
                                 ~Less(c, confidence_threshold), FALSE)

NoReport == SyncReport(Frac(0, 1), Frac(0, 1), Frac(0, 1), NoTiming, <<>>, <<>>, FALSE, FALSE)

(***************************************************************************)
(* apply_corrections.                                                      *)
(***************************************************************************)
\* a number written by f"{value:.2f}"
Num2f(v) == [k |-> "num", v |-> v, fmt |-> ".2f"]

\* value * factor, to the nearest hundredth
scaled(v, f) == (2 * v * f.num + f.den) \div (2 * f.den)

\* "new_wait = max(0.1, current_wait + adjustment)"
min_wait == 10

\* re.sub(r'self\.wait\(([^)]+)\)', scale_timing, code), from position p on:
\* a hold whose duration has a value is rewritten, any other is kept
RECURSIVE scale_waits(_, _, _)
scale_waits(text, p, f) ==
    IF p > Len(text) THEN <<>>
    ELSE LET m == wait_pattern(text, p)
         IN  IF m.ok
             THEN (IF float_eval(m.group).ok
                   THEN <<Tok("wait("), Num2f(scaled(float_eval(m.group).v, f)), Tok(")")>>
                   ELSE SubSeq(text, p, m.end))
                  \o scale_waits(text, m.end + 1, f)
             ELSE <<text[p]>> \o scale_waits(text, p + 1, f)

\* r'run_time\s*=\s*([^,)]+)' matched at position p
run_time_pattern(text, p) ==
    LET stop == FirstCommaOrClose(text, p + 1)
    IN  IF p <= Len(text) /\ text[p].k = "rt=" /\ stop > p + 1
        THEN [ok |-> TRUE, group |-> SubSeq(text, p + 1, stop - 1), end |-> stop - 1]
        ELSE NoMatch

\* the lambda of the run_time substitution raises: no guard around float(eval)
RECURSIVE run_time_raises(_, _)
run_time_raises(text, p) ==
    IF p > Len(text) THEN FALSE
    ELSE LET m == run_time_pattern(text, p)
         IN  IF m.ok THEN ~float_eval(m.group).ok \/ run_time_raises(text, m.end + 1)
             ELSE run_time_raises(text, p + 1)

\* re.sub(r'run_time\s*=\s*([^,)]+)', lambda m: f"run_time={...:.2f}", code)
RECURSIVE scale_run_times(_, _, _)
scale_run_times(text, p, f) ==
    IF p > Len(text) THEN <<>>
    ELSE LET m == run_time_pattern(text, p)
         IN  IF m.ok
             THEN <<Tok("rt="), Num2f(scaled(float_eval(m.group).v, f))>>
                    \o scale_run_times(text, m.end + 1, f)
             ELSE <<text[p]>> \o scale_run_times(text, p + 1, f)

Applied(raised, text) == [raised |-> raised, code |-> text]

\* _apply_duration_correction(code, factor)
apply_duration_correction(text, f) ==
    LET w == scale_waits(text, 1, f)
    IN  IF run_time_raises(w, 1) THEN Applied(TRUE, text)
        ELSE Applied(FALSE, scale_run_times(w, 1, f))

\* re.sub(r'self\.wait\([^)]+\)', f'self.wait({new_wait:.2f})', line)
RECURSIVE replace_waits(_, _, _)
replace_waits(line, p, new_wait) ==
    IF p > Len(line) THEN <<>>
    ELSE LET m == wait_pattern(line, p)
         IN  IF m.ok
             THEN <<Tok("wait("), Num2f(new_wait), Tok(")")>>
                    \o replace_waits(line, m.end + 1, new_wait)
             ELSE <<line[p]>> \o replace_waits(line, p + 1, new_wait)

\* '\n'.join(lines)
RECURSIVE join(_)
join(lines) ==
    IF Len(lines) = 1 THEN lines[1]
    ELSE lines[1] \o <<Tok("nl")>> \o join(Tail(lines))

\* _apply_sync_point_correction(code, adjustment): the first line whose hold
\* has a value gets the adjusted hold
apply_sync_point_correction(text, adjustment) ==
    LET lines == split(text)
        hits == {i \in 1..Len(lines) :
                    /\ adjustment # 0
                    /\ contains(lines[i], "wait(")
                    /\ wait_search(lines[i]).ok
                    /\ float_eval(wait_search(lines[i]).group).ok}
    IN  IF hits = {} THEN text
        ELSE LET i == CHOOSE i \in hits : \A j \in hits : i <= j
                 current_wait == float_eval(wait_search(lines[i]).group).v
                 new_wait == IF current_wait + adjustment > min_wait
                             THEN current_wait + adjustment ELSE min_wait
             IN  join([lines EXCEPT ![i] = replace_waits(lines[i], 1, new_wait)])

\* _apply_speed_correction(code, factor): "1.0 / factor" raises for factor 0
apply_speed_correction(text, f) ==
    IF f.num = 0 THEN Applied(TRUE, text)
    ELSE apply_duration_correction(text, Frac(f.den, f.num))

\* the loop "for correction in corrections" of apply_corrections
RECURSIVE apply_each(_, _)
apply_each(text, corrections) ==
    IF corrections = <<>> THEN Applied(FALSE, text)
    ELSE LET c == Head(corrections)
             r == IF c.type = "duration_adjustment"
                  THEN apply_duration_correction(text, c.factor)
                  ELSE IF c.type = "sync_point_adjustment"
                  THEN Applied(FALSE, apply_sync_point_correction(text, c.adjustment))
                  ELSE apply_speed_correction(text, c.factor)
         IN  IF r.raised THEN r ELSE apply_each(r.code, Tail(corrections))

\* apply_corrections as it would be if "except" returned corrected_code
apply_corrections_keeps_partial(text, corrections) == apply_each(text, corrections).code

\* apply_corrections(manim_code, corrections): the original script comes back
\* when a correction raised
apply_corrections(text, corrections) ==
    IF apply_each(text, corrections).raised THEN text
    ELSE apply_each(text, corrections).code

\* the expressions scale_timing hands to eval: the group of every match of
\* the wait pattern, from position p on
RECURSIVE wait_evals(_, _)
wait_evals(text, p) ==
    IF p > Len(text) THEN <<>>
    ELSE LET m == wait_pattern(text, p)
         IN  IF m.ok THEN <<m.group>> \o wait_evals(text, m.end + 1)
             ELSE wait_evals(text, p + 1)

\* the expressions the run_time lambda hands to eval: the group of every
\* match up to the first one that raises
RECURSIVE run_time_evals(_, _)
run_time_evals(text, p) ==
    IF p > Len(text) THEN <<>>
    ELSE LET m == run_time_pattern(text, p)
         IN  IF m.ok
             THEN <<m.group>> \o (IF float_eval(m.group).ok
                                  THEN run_time_evals(text, m.end + 1) ELSE <<>>)
             ELSE run_time_evals(text, p + 1)

\* the expressions _apply_sync_point_correction hands to eval: the first
\* hold of every line that has one, up to the first that has a value
RECURSIVE sync_point_evals(_, _)
sync_point_evals(lines, adjustment) ==
    IF lines = <<>> \/ adjustment = 0 THEN <<>>
    ELSE LET m == wait_search(Head(lines))
         IN  IF contains(Head(lines), "wait(") /\ m.ok
             THEN <<m.group>> \o (IF float_eval(m.group).ok THEN <<>>
                                  ELSE sync_point_evals(Tail(lines), adjustment))
             ELSE sync_point_evals(Tail(lines), adjustment)

\* the expressions of the script that apply_corrections hands to eval
RECURSIVE evaluated(_, _)
evaluated(text, corrections) ==
    IF corrections = <<>> THEN <<>>
    ELSE LET c == Head(corrections)
             f == IF c.type = "global_speed_adjustment" /\ c.factor.num # 0
                  THEN Frac(c.factor.den, c.factor.num) ELSE c.factor
             r == apply_each(text, <<c>>)
             now == IF c.type = "sync_point_adjustment"
                    THEN sync_point_evals(split(text), c.adjustment)
                    ELSE IF c.type = "global_speed_adjustment" /\ c.factor.num = 0
                    THEN <<>>
                    ELSE wait_evals(text, 1) \o run_time_evals(scale_waits(text, 1, f), 1)
         IN  now \o (IF r.raised THEN <<>> ELSE evaluated(r.code, Tail(corrections)))

(***************************************************************************)
(* State.                                                                  *)
(***************************************************************************)
VARIABLES
    code,             \* the script validate_generated_manim_code was called on
    use_subprocess,   \* its use_subprocess argument
    vpc,              \* where the call is: idle, start, runtime, exec, combine, done
    timer,            \* the threading.Timer of validate_runtime_errors: none, started, fired
    tick,             \* parity of the iterations of a loop the script is running
    runtime_result,   \* the result of validate_runtime_errors, until it is combined
    vresult,          \* the ValidationResult the call returned
    entry,            \* what runs: validate, symbols, verify (the repair loop of
                      \* verify.py) or workflow (workflow.py with animate.py)
    max_attempts,     \* validate_and_regenerate_manim_code: its argument,
    attempt,          \*   the loop variable of "for attempt in range(...)",
    current_code,     \*   the script it holds,
    rpc,              \*   and where it is: off, loop, validating, returned, raised
    validation_result,\* the local validation_result of either repair loop
    nValidate,        \* validation passes started in the current repair session
    nGenerate,        \* regeneration calls made in the current repair session
    nBlocks,          \* create_ansci_animation: len(outline.blocks),
    i,                \*   the index of the block being processed,
    manim_code,       \*   the script of that block,
    retry_count,      \*   its retry counter,
    wpc,              \* where the workflow is
    scene_blocks,     \* the scripts of the scene blocks yielded so far
    sessions,         \* for each of them, how its repair session ended
    rendered,         \* the scripts handed to the renderer
    manim_script,     \* render-server: the script text given to the SyncValidator
    audio_data,       \* audio_data['duration'], in hundredths of a second
    sync_points,      \* the expected sync points
    animation_timing, \* what _extract_animation_timing returned
    sync_result,      \* what validate_sync returned
    spc,              \* where the SyncValidator is
    job_status,       \* render-server: the 'status' column of the job's row,
    job_progress,     \*   its 'progress' column,
    total_sections,   \* process_document: len(sections),
    section_index,    \*   the loop variable of "for i, section in enumerate(sections)",
    ppc,              \*   where the /process request is,
    cpc               \* cancel_job: where the /cancel request is

vvars == <<code, use_subprocess, vpc, timer, tick, runtime_result, vresult>>

rvars == <<max_attempts, attempt, current_code, rpc>>

gvars == <<validation_result, nValidate, nGenerate>>

wvars == <<nBlocks, i, manim_code, retry_count, wpc, scene_blocks, sessions, rendered>>

svars == <<manim_script, audio_data, sync_points, animation_timing, sync_result, spc>>

jvars == <<job_status, job_progress, total_sections, section_index, ppc, cpc>>

callers == <<entry, svars, jvars, rvars, gvars, wvars>>

vars == <<vvars, callers>>

NoResult == ValidationResult(FALSE, <<>>, <<>>, <<>>, "no result")

\* the SyncValidator of the render server is not in use
SyncOff ==
    /\ manim_script = <<>>
    /\ audio_data = 0
    /\ sync_points = <<>>
    /\ animation_timing = NoTiming
    /\ sync_result = NoReport
    /\ spc = "off"

\* no job of the render server is being processed or cancelled
JobOff ==
    /\ job_status = "pending"
    /\ job_progress = 0
    /\ total_sections = 0
    /\ section_index = 0
    /\ ppc = "off"
    /\ cpc = "off"

(***************************************************************************)
(* validate_generated_manim_code, step by step.                            *)
(***************************************************************************)
\* use_subprocess: the whole check is the Manim subprocess
SubprocessValidate ==
    /\ vpc = "start"
    /\ use_subprocess
    /\ \E o \in SubprocessOutcomes :
         /\ SubprocessCanEnd(code, o)
         /\ vresult' = validate_manim_code_with_subprocess(o)
    /\ vpc' = "done"
    /\ UNCHANGED <<code, use_subprocess, timer, tick, runtime_result>>
    /\ UNCHANGED callers

\* step 1 fails: the syntax result is returned as it is
SyntaxReturn ==
    /\ vpc = "start"
    /\ ~use_subprocess
    /\ ~validate_syntax(code).is_valid
    /\ vresult' = validate_syntax(code)
    /\ vpc' = "done"
    /\ UNCHANGED <<code, use_subprocess, timer, tick, runtime_result>>
    /\ UNCHANGED callers

\* steps 2 to 6 read the script only; step 7 is entered
StaticChecks ==
    /\ vpc = "start"
    /\ ~use_subprocess
    /\ validate_syntax(code).is_valid
    /\ vpc' = "runtime"
    /\ UNCHANGED <<code, use_subprocess, timer, tick, runtime_result, vresult>>
    /\ UNCHANGED callers

\* building the sandbox fails (numpy cannot be imported, compile raises)
RuntimeSetupFails ==
    /\ vpc = "runtime"
    /\ runtime_result' = runtime_validation_failed
    /\ vpc' = "combine"
    /\ UNCHANGED <<code, use_subprocess, timer, tick, vresult>>
    /\ UNCHANGED callers

\* timer.start(), then exec(...) begins in the calling thread
TimerStart ==
    /\ vpc = "runtime"
    /\ timer' = "started"
    /\ vpc' = "exec"
    /\ UNCHANGED <<code, use_subprocess, tick, runtime_result, vresult>>
    /\ UNCHANGED callers

\* 3 s later the timer thread runs timeout_handler, which raises TimeoutError
\* in the timer thread; nothing is delivered to the thread running exec
TimerFire ==
    /\ timer = "started"
    /\ timer' = "fired"
    /\ UNCHANGED <<code, use_subprocess, vpc, tick, runtime_result, vresult>>
    /\ UNCHANGED callers

\* one more iteration of a loop of the script that has no exit
ExecLoop ==
    /\ vpc = "exec"
    /\ code.run = "loop"
    /\ tick' = 1 - tick
    /\ UNCHANGED <<code, use_subprocess, vpc, timer, runtime_result, vresult>>
    /\ UNCHANGED callers

\* exec returns or raises; timer.cancel()
ExecReturn ==
    /\ vpc = "exec"
    /\ code.run # "loop"
    /\ runtime_result' = runtime_outcome(code.run)
    /\ timer' = "none"
    /\ vpc' = "combine"
    /\ UNCHANGED <<code, use_subprocess, tick, vresult>>
    /\ UNCHANGED callers

Combine ==
    /\ vpc = "combine"
    /\ vresult' = static_validation(code, runtime_result)
    /\ vpc' = "done"
    /\ UNCHANGED <<code, use_subprocess, timer, tick, runtime_result>>
    /\ UNCHANGED callers

ValidateNext ==
    \/ SubprocessValidate
    \/ SyntaxReturn
    \/ StaticChecks
    \/ RuntimeSetupFails
    \/ TimerStart
    \/ TimerFire
    \/ ExecLoop
    \/ ExecReturn
    \/ Combine

(***************************************************************************)
(* Spec: one call of validate_generated_manim_code on any script.          *)
(***************************************************************************)
\* no repair loop and no workflow is running
NoCallers ==
    /\ SyncOff
    /\ JobOff
    /\ max_attempts = 0
    /\ attempt = 0
    /\ rpc = "off"
    /\ validation_result = NoResult
    /\ nValidate = 0
    /\ nGenerate = 0
    /\ nBlocks = 0
    /\ i = 0
    /\ retry_count = 0
    /\ wpc = "off"
    /\ scene_blocks = <<>>
    /\ sessions = <<>>
    /\ rendered = <<>>

SandboxIdle ==
    /\ timer = "none"
    /\ tick = 0
    /\ runtime_result = NoResult
    /\ vresult = NoResult

ValidateInit ==
    /\ entry = "validate"
    /\ code \in AllScripts
    /\ use_subprocess \in BOOLEAN
    /\ vpc = "start"
    /\ SandboxIdle
    /\ NoCallers
    /\ current_code = code
    /\ manim_code = code

Init == ValidateInit

Next == ValidateNext

Spec == Init /\ [][Next]_vars

\* the thread that called validate_generated_manim_code
MainThread ==
    \/ SubprocessValidate
    \/ SyntaxReturn
    \/ StaticChecks
    \/ RuntimeSetupFails
    \/ TimerStart
    \/ ExecLoop
    \/ ExecReturn
    \/ Combine

\* both threads are scheduled: the calling thread keeps running and the
\* timer thread runs its handler once the delay has passed
FairSpec == Spec /\ WF_vars(MainThread) /\ WF_vars(TimerFire)

(***************************************************************************)
(* Claims about one validation call (Spec, FairSpec).                      *)
(***************************************************************************)
\* C4: sandbox execution of a script whose executed body loops forever
\* returns to the caller, invalid and tagged timeout_error.
C4_InfiniteLoopTimesOut ==
    (vpc = "exec" /\ code.run = "loop")
        ~> (/\ vpc \in {"combine", "done"}
            /\ ~runtime_result.is_valid
            /\ runtime_result.error_type = "timeout_error")

\* C5: every ValidationResult returned by validate_generated_manim_code has
\* is_valid exactly when its error list is empty.
C5_ValidIffNoErrors ==
    vpc = "done" => (vresult.is_valid <=> vresult.errors = <<>>)

C5_Witness ==
    /\ vpc = "done"
    /\ ~use_subprocess
    /\ ~vresult.is_valid
    /\ Len(vresult.errors) >= 2

\* C6: a script that parses and has no class inheriting from Scene is
\* returned invalid with error_type structural_error, whatever else fails.
C6_MissingSceneIsStructural ==
    (vpc = "done" /\ ~use_subprocess /\ code.parses /\ ~has_scene_class(code))
        => (~vresult.is_valid /\ vresult.error_type = "structural_error")

\* C7: a script that does not parse is returned invalid, tagged
\* syntax_error, with the findings of the syntax check only.
C7_SyntaxErrorClassified ==
    (vpc = "done" /\ ~use_subprocess /\ ~code.parses)
        => /\ ~vresult.is_valid
           /\ vresult.error_type = "syntax_error"
           /\ vresult.errors = validate_syntax(code).errors

\* the same script with no safety or loop match, and the number of matches
WithoutSafetyMatches(s) == [s EXCEPT !.danger = FALSE, !.loopText = FALSE]

SafetyMatches(s) == (IF s.danger THEN 1 ELSE 0) + (IF s.loopText THEN 1 ELSE 0)

\* C9: matches of the safety scan and of the loop scan are warnings only:
\* the result has the errors, the validity and the error_type of the same
\* script without the matches, and one more warning per match; a script
\* with no other finding is valid with warnings.
C9_SafetyFindingsAreWarnings ==
    (vpc = "done" /\ ~use_subprocess /\ code.parses)
        => LET clean == static_validation(WithoutSafetyMatches(code), runtime_result)
           IN  /\ vresult.errors = clean.errors
               /\ vresult.is_valid = clean.is_valid
               /\ vresult.error_type = clean.error_type
               /\ vresult.error_type # "safety_error"
               /\ Len(vresult.warnings) = Len(clean.warnings) + SafetyMatches(code)
               /\ (clean.errors = <<>> /\ SafetyMatches(code) > 0)
                    => (vresult.is_valid /\ vresult.warnings # <<>>)

C9_Witness ==
    /\ vpc = "done"
    /\ ~use_subprocess
    /\ code.danger
    /\ code.loopText
    /\ vresult.is_valid
    /\ Len(vresult.warnings) = 2

(***************************************************************************)
(* SymSpec: validate_undefined_variables on every script body of up to     *)
(* MaxEvents name events.                                                  *)
(***************************************************************************)
SymbolScript(b) ==
    [parses |-> TRUE, klass |-> "scene", construct |-> "method", imports |-> "ok",
     body |-> b, calls |-> <<>>, run |-> "ok", danger |-> FALSE, loopText |-> FALSE]

SymInit ==
    /\ entry = "symbols"
    /\ code \in {SymbolScript(b) : b \in Bodies}
    /\ use_subprocess = FALSE
    /\ vpc = "symbols"
    /\ SandboxIdle
    /\ NoCallers
    /\ current_code = code
    /\ manim_code = code

CheckSymbols ==
    /\ vpc = "symbols"
    /\ vresult' = validate_undefined_variables(code)
    /\ vpc' = "done"
    /\ UNCHANGED <<code, use_subprocess, timer, tick, runtime_result>>
    /\ UNCHANGED callers

SymNext == CheckSymbols

SymSpec == SymInit /\ [][SymNext]_vars

\* the names a script body references, and the names it binds anywhere
Referenced(body) == {body[k].name : k \in {j \in 1..Len(body) : body[j].kind = "load"}}

BoundInScript(body) == {body[k].name : k \in {j \in 1..Len(body) : body[j].kind # "load"}}

UnboundReferences(body) ==
    {n \in Referenced(body) \ BoundInScript(body) :
        /\ n \notin defined_names
        /\ n \notin {"self", "cls"}
        /\ ~StartsWithUnderscore(n)}

\* C8: the names reported as undefined-variable errors are exactly the
\* referenced names that no import, assignment, parameter of any kind or
\* other binding construct of the script binds, that are not in the
\* allow-list, not self / cls and not underscore-prefixed, each reported once.
C8_ReportsExactlyTheUnbound ==
    vpc = "done"
        => /\ {vresult.errors[k].arg : k \in 1..Len(vresult.errors)}
                = UnboundReferences(code.body)
           /\ Len(vresult.errors) = Cardinality(UnboundReferences(code.body))

(***************************************************************************)
(* validate_and_regenerate_manim_code (verify.py).                         *)
(***************************************************************************)
Script(p, k, c, b, r) ==
    [parses |-> p, klass |-> k, construct |-> c, imports |-> "ok", body |-> b,
     calls |-> <<>>, run |-> r, danger |-> FALSE, loopText |-> FALSE]

\* the scripts the generator hands to the repair loop: one that passes every
\* check, one without a Scene class, one that references an unbound name,
\* one whose execution divides by zero, one whose execution never returns,
\* and one that does not parse
GenScripts ==
    { Script(TRUE, "scene", "method", <<>>, "ok"),
      Script(TRUE, "none", "none", <<>>, "ok"),
      Script(TRUE, "scene", "method", <<Ev("load", "x")>>, "ok"),
      Script(TRUE, "scene", "method", <<>>, "ZeroDivisionError"),
      Script(TRUE, "scene", "method", <<>>, "loop"),
      Script(FALSE, "scene", "method", <<>>, "ok") }

VerifyInit ==
    /\ SyncOff
    /\ JobOff
    /\ entry = "verify"
    /\ max_attempts \in 0..MaxAttemptsBound
    /\ use_subprocess \in BOOLEAN
    /\ current_code \in GenScripts
    /\ attempt = 0
    /\ rpc = "loop"
    /\ validation_result = NoResult
    /\ nValidate = 0
    /\ nGenerate = 0
    /\ code = current_code
    /\ vpc = "idle"
    /\ SandboxIdle
    /\ nBlocks = 0
    /\ i = 0
    /\ manim_code = current_code
    /\ retry_count = 0
    /\ wpc = "off"
    /\ scene_blocks = <<>>
    /\ sessions = <<>>
    /\ rendered = <<>>

\* the guard as it would be if the last pass regenerated too
MoreAttemptsOffByOne == attempt < max_attempts

\* "if attempt < max_attempts - 1"
MoreAttempts == attempt < max_attempts - 1

\* the call returns: its result is bound by the caller, its locals are gone
ValidateReturns ==
    /\ vpc = "done"
    /\ vpc' = "idle"
    /\ vresult' = NoResult
    /\ runtime_result' = NoResult
    /\ UNCHANGED <<code, use_subprocess, timer, tick>>

\* the head of "for attempt in range(max_attempts)": the next pass validates
\* current_code; when the range is used up the function falls through to
\* its last line, which raises UnboundLocalError if no pass has run
VerifyLoopHead ==
    /\ rpc = "loop"
    /\ IF attempt < max_attempts
       THEN /\ code' = current_code
            /\ vpc' = "start"
            /\ rpc' = "validating"
            /\ nValidate' = nValidate + 1
       ELSE /\ rpc' = IF validation_result = NoResult THEN "raised" ELSE "returned"
            /\ UNCHANGED <<code, vpc, nValidate>>
    /\ UNCHANGED <<use_subprocess, timer, tick, runtime_result, vresult>>
    /\ UNCHANGED <<entry, svars, jvars, max_attempts, attempt, current_code, wvars>>
    /\ UNCHANGED <<validation_result, nGenerate>>

\* the test as it would be if the early return had been left out
PassSucceededIgnored(r) == FALSE

\* "validation_result.is_valid", the test that ends either repair loop
PassSucceeded(r) == r.is_valid

\* "if validation_result.is_valid: return current_code, validation_result"
VerifyReturnValid ==
    /\ rpc = "validating"
    /\ ValidateReturns
    /\ PassSucceeded(vresult)
    /\ validation_result' = vresult
    /\ rpc' = "returned"
    /\ UNCHANGED <<entry, svars, jvars, max_attempts, attempt, current_code, wvars>>
    /\ UNCHANGED <<nValidate, nGenerate>>

\* the pass failed and attempts remain: regenerate_manim_code_with_anthropic
\* returns any script, or the script it was given when the call fails
VerifyRegenerate ==
    /\ rpc = "validating"
    /\ ValidateReturns
    /\ ~PassSucceeded(vresult)
    /\ MoreAttempts
    /\ validation_result' = vresult
    /\ \E new \in GenScripts : current_code' = new
    /\ nGenerate' = nGenerate + 1
    /\ attempt' = attempt + 1
    /\ rpc' = "loop"
    /\ UNCHANGED <<entry, svars, jvars, max_attempts, wvars, nValidate>>

\* the pass failed and it was the last one: break
VerifyGiveUp ==
    /\ rpc = "validating"
    /\ ValidateReturns
    /\ ~PassSucceeded(vresult)
    /\ ~MoreAttempts
    /\ validation_result' = vresult
    /\ rpc' = "returned"
    /\ UNCHANGED <<entry, svars, jvars, max_attempts, attempt, current_code, wvars>>
    /\ UNCHANGED <<nValidate, nGenerate>>

VerifyNext ==
    \/ VerifyLoopHead
    \/ VerifyReturnValid
    \/ VerifyRegenerate
    \/ VerifyGiveUp

(***************************************************************************)
(* create_animation (workflow.py): create_ansci_animation (animate.py)     *)
(* consumed block by block, then render_audiovisual_animation_embedded     *)
(* (render.py).                                                            *)
(***************************************************************************)
max_retries == 3

\* "if len(scene_blocks) >= 3: break"
SceneLimit == 3

\* the scripts the generator hands to the workflow: a complete scene, a
\* text with no class and no construct, a Scene class without construct,
\* and a scene that does not parse
WorkflowScripts ==
    { Script(TRUE, "scene", "method", <<>>, "ok"),
      Script(TRUE, "none", "none", <<>>, "ok"),
      Script(TRUE, "scene", "none", <<>>, "ok"),
      Script(FALSE, "scene", "method", <<>>, "ok") }

WorkflowInit ==
    /\ SyncOff
    /\ JobOff
    /\ entry = "workflow"
    /\ nBlocks \in 0..MaxBlocks
    /\ i = 0
    /\ wpc = "generate"
    /\ manim_code \in WorkflowScripts
    /\ retry_count = 0
    /\ scene_blocks = <<>>
    /\ sessions = <<>>
    /\ rendered = <<>>
    /\ validation_result = NoResult
    /\ nValidate = 0
    /\ nGenerate = 0
    /\ use_subprocess = TRUE
    /\ code = manim_code
    /\ vpc = "idle"
    /\ SandboxIdle
    /\ max_attempts = 0
    /\ attempt = 0
    /\ current_code = manim_code
    /\ rpc = "off"

\* the consumer asks the generator for the next scene block: the block's
\* script is generated and its first validation pass starts; when the
\* outline is used up, or SceneLimit blocks were taken, collection ends
NextBlock ==
    /\ wpc = "generate"
    /\ vpc = "idle"
    /\ IF i < nBlocks /\ Len(scene_blocks) < SceneLimit
       THEN /\ \E s \in WorkflowScripts :
                 /\ manim_code' = s
                 /\ code' = s
            /\ vpc' = "start"
            /\ retry_count' = 0
            /\ nValidate' = 1
            /\ nGenerate' = 0
            /\ wpc' = "validating"
       ELSE /\ wpc' = IF scene_blocks = <<>> THEN "failed" ELSE "render"
            /\ UNCHANGED <<manim_code, code, vpc, retry_count, nValidate, nGenerate>>
    /\ UNCHANGED <<use_subprocess, timer, tick, runtime_result, vresult>>
    /\ UNCHANGED <<entry, svars, jvars, rvars, validation_result>>
    /\ UNCHANGED <<nBlocks, i, scene_blocks, sessions, rendered>>

\* "validation_result = validate_generated_manim_code(manim_code)"
SceneValidated ==
    /\ wpc = "validating"
    /\ ValidateReturns
    /\ validation_result' = vresult
    /\ wpc' = "while"
    /\ UNCHANGED <<entry, svars, jvars, rvars, nValidate, nGenerate>>
    /\ UNCHANGED <<nBlocks, i, manim_code, retry_count, scene_blocks, sessions, rendered>>

\* "if retry_count < max_retries", read after "retry_count += 1"
MayRegenerate(rc) == rc < max_retries

\* the loop condition as it would be with one retry fewer
LoopContinuesShort(r, rc) == ~PassSucceeded(r) /\ rc < max_retries - 1

\* "while not validation_result.is_valid and retry_count < max_retries"
LoopContinues(r, rc) == ~PassSucceeded(r) /\ rc < max_retries

\* one turn of "while not validation_result.is_valid and retry_count <
\* max_retries" that regenerates the script and validates it again
RetryRegenerate ==
    /\ wpc = "while"
    /\ vpc = "idle"
    /\ LoopContinues(validation_result, retry_count)
    /\ MayRegenerate(retry_count + 1)
    /\ retry_count' = retry_count + 1
    /\ \E s \in WorkflowScripts :
         /\ manim_code' = s
         /\ code' = s
    /\ vpc' = "start"
    /\ nGenerate' = nGenerate + 1
    /\ nValidate' = nValidate + 1
    /\ wpc' = "validating"
    /\ UNCHANGED <<use_subprocess, timer, tick, runtime_result, vresult>>
    /\ UNCHANGED <<entry, svars, jvars, rvars, validation_result>>
    /\ UNCHANGED <<nBlocks, i, scene_blocks, sessions, rendered>>

\* the last turn of the loop only counts
RetryLast ==
    /\ wpc = "while"
    /\ LoopContinues(validation_result, retry_count)
    /\ ~MayRegenerate(retry_count + 1)
    /\ retry_count' = retry_count + 1
    /\ UNCHANGED vvars
    /\ UNCHANGED <<entry, svars, jvars, rvars, gvars>>
    /\ UNCHANGED <<nBlocks, i, manim_code, wpc, scene_blocks, sessions, rendered>>

\* the loop is left, valid or not ("Proceeding with Scene despite validation
\* errors"), the scene block is yielded and the consumer appends it
YieldScene ==
    /\ wpc = "while"
    /\ ~LoopContinues(validation_result, retry_count)
    /\ scene_blocks' = Append(scene_blocks, manim_code)
    /\ sessions' = Append(sessions, [valid |-> validation_result.is_valid,
                                      reported |-> validation_result.errors # <<>>,
                                      validated |-> code,
                                      retries |-> retry_count])
    /\ i' = i + 1
    /\ wpc' = "generate"
    /\ UNCHANGED vvars
    /\ UNCHANGED <<entry, svars, jvars, rvars, gvars>>
    /\ UNCHANGED <<nBlocks, manim_code, retry_count, rendered>>

\* render.py: the text is not empty and holds "class" and "def construct"
validate_scene_block(s) == s.klass # "none" /\ s.construct # "none"

validate_animation(blocks) ==
    /\ blocks # <<>>
    /\ \A k \in 1..Len(blocks) : validate_scene_block(blocks[k])

\* render_audiovisual_animation_embedded(animation, enable_validation=True):
\* every block of an accepted animation is rendered
Render ==
    /\ wpc = "render"
    /\ rendered' = IF validate_animation(scene_blocks) THEN scene_blocks ELSE <<>>
    /\ wpc' = "done"
    /\ UNCHANGED vvars
    /\ UNCHANGED <<entry, svars, jvars, rvars, gvars>>
    /\ UNCHANGED <<nBlocks, i, manim_code, retry_count, scene_blocks, sessions>>

WorkflowNext ==
    \/ NextBlock
    \/ SceneValidated
    \/ RetryRegenerate
    \/ RetryLast
    \/ YieldScene
    \/ Render

(***************************************************************************)
(* RepairSpec: either repair loop, with the validation calls it makes.     *)
(***************************************************************************)
RepairInit == VerifyInit \/ WorkflowInit

RepairNext == ValidateNext \/ VerifyNext \/ WorkflowNext

RepairSpec == RepairInit /\ [][RepairNext]_vars

\* the thread running the repair loop or the workflow
CallerThread == MainThread \/ VerifyNext \/ WorkflowNext

FairRepairSpec == RepairSpec /\ WF_vars(CallerThread) /\ WF_vars(TimerFire)

\* the repair loop or the workflow has come to its end
Finished ==
    \/ entry = "verify" /\ rpc \in {"returned", "raised"}
    \/ entry = "workflow" /\ wpc \in {"done", "failed"}

\* C1: with max_attempts = N >= 1 the repair loop makes at most N validation
\* passes and at most N-1 generator calls, the per-scene retry loop at most
\* max_retries passes and max_retries-1 generator calls, and each of them
\* then terminates, whatever the generator returns.
C1_BoundedAndTerminates ==
    /\ [](entry = "verify" /\ max_attempts >= 1
            => nValidate <= max_attempts /\ nGenerate <= max_attempts - 1)
    /\ [](entry = "workflow"
            => nValidate <= max_retries /\ nGenerate <= max_retries - 1)
    /\ <>Finished

\* C2: when every validation pass was invalid the repair loop does not
\* raise; it returns the last generated script with an invalid result that
\* has errors, and that result is the one of the pass that validated exactly
\* the returned script.  The same holds for every scene block the per-scene
\* retry loop yields invalid.
C2_ExhaustionReturnsLastScript ==
    /\ entry = "verify" /\ max_attempts >= 1 => rpc # "raised"
    /\ entry = "verify" /\ rpc = "returned" /\ ~validation_result.is_valid
         => /\ validation_result.errors # <<>>
            /\ code = current_code
            /\ nValidate = max_attempts
    /\ \A k \in 1..Len(sessions) :
         ~sessions[k].valid
           => /\ sessions[k].reported
              /\ sessions[k].validated = scene_blocks[k]

C2_Witness ==
    /\ entry = "verify"
    /\ rpc = "returned"
    /\ ~validation_result.is_valid
    /\ nGenerate = 2
    /\ max_attempts = 3

\* C3: a validation pass that returns is_valid = true ends the repair loop
\* at once: the next step returns the validated script with that result and
\* neither calls the generator nor validates again, so a valid initial
\* script is returned after zero generator calls; the per-scene retry loop
\* likewise yields the validated script without another pass.
C3_ReturnsAtFirstValid ==
    [][ /\ rpc = "validating" /\ vpc = "done" /\ vresult.is_valid
          => /\ rpc' = "returned"
             /\ current_code' = code
             /\ validation_result' = vresult
             /\ nGenerate' = nGenerate
             /\ nValidate' = nValidate
             /\ nValidate = 1 => nGenerate' = 0
        /\ wpc = "validating" /\ vpc = "done" /\ vresult.is_valid
          => /\ wpc' = "while"
             /\ validation_result' = vresult
             /\ manim_code' = code
             /\ nGenerate' = nGenerate
             /\ nValidate' = nValidate
        /\ wpc = "while" /\ validation_result.is_valid
          => /\ wpc' = "generate"
             /\ scene_blocks' = Append(scene_blocks, code)
             /\ nGenerate' = nGenerate
             /\ nValidate' = nValidate ]_vars

C3_Witness ==
    /\ entry = "verify"
    /\ rpc = "returned"
    /\ validation_result.is_valid
    /\ nGenerate = 1
    /\ nValidate = 2
    /\ max_attempts = 3

ValidatorIdle ==
    /\ code = SymbolScript(<<>>)
    /\ use_subprocess = FALSE
    /\ vpc = "idle"
    /\ SandboxIdle
    /\ current_code = code
    /\ manim_code = code
    /\ max_attempts = 0
    /\ attempt = 0
    /\ rpc = "off"
    /\ validation_result = NoResult
    /\ nValidate = 0
    /\ nGenerate = 0
    /\ nBlocks = 0
    /\ i = 0
    /\ retry_count = 0
    /\ wpc = "off"
    /\ scene_blocks = <<>>
    /\ sessions = <<>>
    /\ rendered = <<>>

TimingInit ==
    /\ entry = "timing"
    /\ ValidatorIdle
    /\ JobOff
    /\ manim_script \in TimingScripts
    /\ audio_data = 0
    /\ sync_points = <<>>
    /\ animation_timing = NoTiming
    /\ sync_result = NoReport
    /\ spc = "extract"

\* "animation_timing = self._extract_animation_timing(manim_code)"
ExtractTiming ==
    /\ spc = "extract"
    /\ animation_timing' = extract_animation_timing(manim_script)
    /\ spc' = "extracted"
    /\ UNCHANGED <<manim_script, audio_data, sync_points, sync_result>>
    /\ UNCHANGED <<vvars, entry, jvars, rvars, gvars, wvars>>

TimingNext == ExtractTiming

TimingSpec == TimingInit /\ [][TimingNext]_vars

\* the timed operations written in the plain way, one per line
HoldLiteral == <<Tok("wait("), Num(200), Tok(")")>>

HoldUnevaluable == <<Tok("wait("), Tok("t"), Tok(")")>>

TransitionDefault == <<Tok("play("), Tok("x"), Tok(")")>>

TransitionLiteral == <<Tok("play("), Tok("x"), Tok(","), Tok("rt="), Num(150), Tok(")")>>

TransitionNested ==
    <<Tok("play("), Tok("x"), Tok("("), Tok("t"), Tok(")"), Tok(","),
      Tok("rt="), Num(150), Tok(")")>>

TransitionUnevaluable ==
    <<Tok("play("), Tok("x"), Tok(","), Tok("rt="), Tok("t"), Tok(")")>>

RECURSIVE OpSeqs(_, _)
OpSeqs(forms, n) ==
    IF n = 0 THEN {<<>>}
    ELSE OpSeqs(forms, n - 1)
           \cup {Append(s, op) : s \in {x \in OpSeqs(forms, n - 1) : Len(x) = n - 1},
                                 op \in forms}

\* the text of the operations ops, one per line
RECURSIVE OnePerLine(_)
OnePerLine(ops) ==
    IF ops = <<>> THEN <<>>
    ELSE IF Len(ops) = 1 THEN ops[1]
    ELSE ops[1] \o <<Tok("nl")>> \o OnePerLine(Tail(ops))

\* the duration the specification gives an operation: its literal duration
\* or run_time, and the default where there is none or it has no value
StatedDuration(op) ==
    IF op[1].k = "wait("
    THEN IF op[2].k = "num" THEN op[2].v ELSE DefaultTime
    ELSE LET at == {q \in 1..Len(op) - 1 : op[q].k = "rt=" /\ op[q + 1].k = "num"}
         IN  IF at = {} THEN DefaultTime ELSE op[(CHOOSE q \in at : TRUE) + 1].v

StatedDurations(ops) == [k \in 1..Len(ops) |-> StatedDuration(ops[k])]

EventDurations(m) == [k \in 1..Len(m.timing_events) |-> m.timing_events[k].duration]

\* C11: _extract_animation_timing returns a timing model for every text,
\* the empty model when a duration expression could not be evaluated, and
\* never lets an exception reach its caller.
C11_ExtractTimingIsTotal ==
    spc = "extracted"
        => /\ ~animation_timing.raised
           /\ animation_timing.event_count = Len(animation_timing.timing_events)
           /\ animation_timing.error
                => /\ animation_timing.total_duration = 0
                   /\ animation_timing.timing_events = <<>>

C11_Witness ==
    /\ spc = "extracted"
    /\ animation_timing.error
    /\ Len(manim_script) > 3

\* C12: every hold with a literal duration d contributes d, every transition
\* with a literal run_time r contributes r and every transition without
\* run_time contributes 1.0, to the total and as the duration of its event.
C12_LiteralDurationsExtracted ==
    \A ops \in OpSeqs({HoldLiteral, TransitionDefault, TransitionLiteral, TransitionNested},
                      MaxOps) :
      (spc = "extracted" /\ manim_script = OnePerLine(ops))
        => /\ animation_timing.total_duration = sum(StatedDurations(ops))
           /\ EventDurations(animation_timing) = StatedDurations(ops)

\* C13: the total_duration of the returned timing model is the sum of the
\* durations of its timing_events.
C13_TotalIsSumOfEvents ==
    spc = "extracted"
        => animation_timing.total_duration = sum(EventDurations(animation_timing))

\* C14: the events of the returned timing model are in source order, the
\* first starts at 0 and each next one starts where the one before it ends.
C14_EventsAreCumulative ==
    spc = "extracted"
        => LET ev == animation_timing.timing_events
           IN  /\ ev # <<>> => ev[1].start_time = 0
               /\ \A k \in 1..Len(ev) - 1 :
                    /\ ev[k + 1].start_time = ev[k].start_time + ev[k].duration
                    /\ ev[k].line < ev[k + 1].line

C14_Witness ==
    /\ spc = "extracted"
    /\ Len(animation_timing.timing_events) = 3
    /\ animation_timing.timing_events[2].start_time = 200
    /\ animation_timing.timing_events[3].start_time = 300

\* C19: when a duration expression cannot be evaluated the operation counts
\* with the default 1.0 and the complete timing model is still returned:
\* every operation has its event and duration, in the total as well.
C19_UnevaluableFallsBack ==
    \A ops \in OpSeqs({HoldLiteral, HoldUnevaluable, TransitionDefault,
                       TransitionUnevaluable}, MaxOps) :
      (/\ spc = "extracted"
       /\ manim_script = OnePerLine(ops)
       /\ \E k \in 1..Len(ops) : ops[k] \in {HoldUnevaluable, TransitionUnevaluable})
        => /\ ~animation_timing.error
           /\ animation_timing.total_duration = sum(StatedDurations(ops))
           /\ EventDurations(animation_timing) = StatedDurations(ops)

(***************************************************************************)
(* SyncSpec: the render server validates the synchronization of a script   *)
(* and applies the corrections when the confidence is low (app.py).        *)
(***************************************************************************)
SyncScripts ==
    { <<>>,
      HoldLiteral,
      HoldUnevaluable,
      OnePerLine(<<HoldLiteral, TransitionLiteral>>),
      OnePerLine(<<HoldLiteral, HoldLiteral, HoldLiteral>>),
      OnePerLine(<<TransitionDefault, HoldLiteral, TransitionUnevaluable>>),
      HoldLiteral \o <<Tok("sep")>> \o HoldLiteral }

AudioDurations == {0, 100, 300, 350, 540}

SyncPointChoices ==
    { SyncPoint("a", 0, TRUE), SyncPoint("b", 200, TRUE),
      SyncPoint("c", 250, TRUE), SyncPoint("d", 0, FALSE),
      SyncPoint("e", 10, TRUE) }

SyncPointLists == SeqsUpTo(SyncPointChoices, MaxSyncPoints)

SyncInit ==
    /\ entry = "sync"
    /\ ValidatorIdle
    /\ JobOff
    /\ manim_script \in SyncScripts
    /\ audio_data \in AudioDurations
    /\ sync_points \in SyncPointLists
    /\ animation_timing = NoTiming
    /\ sync_result = NoReport
    /\ spc = "validate"

\* "sync_result = sync_validator.validate_sync(manim_code, audio_file, sync_points)"
ValidateSync ==
    /\ spc = "validate"
    /\ animation_timing' = extract_animation_timing(manim_script)
    /\ sync_result' = validate_sync(animation_timing', audio_data, sync_points)
    /\ spc' = "validated"
    /\ UNCHANGED <<manim_script, audio_data, sync_points>>
    /\ UNCHANGED <<vvars, entry, jvars, rvars, gvars, wvars>>

\* "if sync_result['confidence'] < 0.95: manim_code = apply_corrections(...)"
ApplySyncCorrections ==
    /\ spc = "validated"
    /\ Less(sync_result.confidence, Frac(95, 100))
    /\ manim_script' = apply_corrections(manim_script, sync_result.corrections)
    /\ spc' = "render"
    /\ UNCHANGED <<audio_data, sync_points, animation_timing, sync_result>>
    /\ UNCHANGED <<vvars, entry, jvars, rvars, gvars, wvars>>

\* the confidence is high enough: the script is rendered as it is
SkipCorrections ==
    /\ spc = "validated"
    /\ ~Less(sync_result.confidence, Frac(95, 100))
    /\ spc' = "render"
    /\ UNCHANGED <<manim_script, audio_data, sync_points, animation_timing, sync_result>>
    /\ UNCHANGED <<vvars, entry, jvars, rvars, gvars, wvars>>

SyncNext == ValidateSync \/ ApplySyncCorrections \/ SkipCorrections

SyncSpec == SyncInit /\ [][SyncNext]_vars

\* the sync points with no event within the tolerance
Unmatched(events, points) ==
    SelectSeq(points, LAMBDA sp :
        \A k \in 1..Len(events) : Abs(events[k].start_time - sp.time) > tolerance_seconds)

OfType(corrections, type) == SelectSeq(corrections, LAMBDA c : c.type = type)

\* C15: every report of validate_sync has confidence = 0.4 * duration_score
\* + 0.6 * sync_score with duration_score = max(0, 1 - |total_duration -
\* target| / target), 0 for target 0, and a confidence between 0 and 1, the
\* report of an internal failure included.
C15_ConfidenceIsWeightedAndBounded ==
    spc \in {"validated", "render"}
        => LET r == sync_result
               total == r.timing_data.total_duration
               gap == audio_data - Abs(total - audio_data)
           IN  /\ 0 <= r.confidence.num
               /\ r.confidence.num <= r.confidence.den
               /\ ~r.error
                    => /\ 10 * r.confidence.num * r.duration_score.den * r.sync_score.den
                            = r.confidence.den
                                * (4 * r.duration_score.num * r.sync_score.den
                                     + 6 * r.sync_score.num * r.duration_score.den)
                       /\ audio_data = 0 => r.duration_score.num = 0
                       /\ audio_data > 0
                            => r.duration_score.num * audio_data
                                 = r.duration_score.den * (IF gap > 0 THEN gap ELSE 0)

C15_Witness ==
    /\ spc = "validated"
    /\ ~sync_result.error
    /\ sync_result.timing_data.total_duration > 2 * audio_data
    /\ audio_data > 0
    /\ sync_result.confidence.num > 0

\* C20 as the specification states it: corrections only below the
\* threshold; then a duration adjustment with factor target / total_duration
\* exactly when the durations differ by more than 0.5 s, one sync-point
\* adjustment per unmatched sync point with adjustment = expected_time -
\* closest event time, and a global speed adjustment exactly when more than
\* half of the sync points are unmatched.
C20_CorrectionsAsStated ==
    (spc = "validated" /\ ~sync_result.error)
        => LET r == sync_result
               total == r.timing_data.total_duration
               events == r.timing_data.timing_events
               missed == Unmatched(events, sync_points)
               dur == OfType(r.corrections, "duration_adjustment")
               pts == OfType(r.corrections, "sync_point_adjustment")
               spd == OfType(r.corrections, "global_speed_adjustment")
           IN  /\ ~Less(r.confidence, confidence_threshold)
                    => r.valid /\ r.corrections = <<>>
               /\ Less(r.confidence, confidence_threshold)
                    => /\ ~r.valid
                       /\ Len(dur) = IF Abs(total - audio_data) > duration_margin THEN 1 ELSE 0
                       /\ \A k \in 1..Len(dur) :
                            total # 0 /\ dur[k].factor.num * total = audio_data * dur[k].factor.den
                       /\ Len(pts) = Len(missed)
                       /\ \A k \in 1..Len(pts) :
                            /\ pts[k].sync_point = missed[k].name
                            /\ events # <<>>
                            /\ pts[k].adjustment
                                 = missed[k].time
                                     - events[closest_event(events, missed[k].time)].start_time
                       /\ Len(spd) = IF 2 * Len(missed) > Len(sync_points) THEN 1 ELSE 0

\* C20: as stated, except that the factor of the duration adjustment is
\* target / total_duration only for a positive total_duration and 1.0 for a
\* total_duration of 0, and that the adjustment of an unmatched sync point is
\* its expected_time itself when the timing model has no event.
C20_CorrectionsAsSynthesized ==
    (spc = "validated" /\ ~sync_result.error)
        => LET r == sync_result
               total == r.timing_data.total_duration
               events == r.timing_data.timing_events
               missed == Unmatched(events, sync_points)
               dur == OfType(r.corrections, "duration_adjustment")
               pts == OfType(r.corrections, "sync_point_adjustment")
               spd == OfType(r.corrections, "global_speed_adjustment")
           IN  /\ ~Less(r.confidence, confidence_threshold)
                    => r.valid /\ r.corrections = <<>>
               /\ Less(r.confidence, confidence_threshold)
                    => /\ ~r.valid
                       /\ Len(dur) = IF Abs(total - audio_data) > duration_margin THEN 1 ELSE 0
                       /\ \A k \in 1..Len(dur) :
                            IF total > 0
                            THEN dur[k].factor.num * total = audio_data * dur[k].factor.den
                            ELSE dur[k].factor.num = dur[k].factor.den
                       /\ Len(pts) = Len(missed)
                       /\ \A k \in 1..Len(pts) :
                            /\ pts[k].sync_point = missed[k].name
                            /\ pts[k].adjustment
                                 = IF events = <<>> THEN missed[k].time
                                   ELSE missed[k].time
                                          - events[closest_event(events, missed[k].time)].start_time
                       /\ Len(spd) = IF 2 * Len(missed) > Len(sync_points) THEN 1 ELSE 0

C20_Witness ==
    /\ spc = "validated"
    /\ ~sync_result.error
    /\ Len(sync_result.corrections) = 3
    /\ sync_result.corrections[1].type = "duration_adjustment"
    /\ sync_result.corrections[1].factor = Frac(540, 200)
    /\ sync_result.corrections[2].adjustment = 250
    /\ sync_result.corrections[3].type = "global_speed_adjustment"

(***************************************************************************)
(* ScaleSpec: apply_corrections with one duration adjustment, on every      *)
(* script of up to MaxOps timed operations.                                *)
(***************************************************************************)
ScaleFactors == {Frac(5, 2), Frac(1, 2)}

\* a report whose only correction is a duration adjustment with factor f
DurationScaleReport(f) ==
    SyncReport(Frac(0, 1), Frac(0, 1), Frac(0, 1), NoTiming, <<>>,
               <<Correction("duration_adjustment", f, "-", 0)>>, FALSE, FALSE)

ScaleInit ==
    /\ entry = "scale"
    /\ ValidatorIdle
    /\ JobOff
    /\ manim_script \in TimingScripts
    /\ audio_data = 0
    /\ sync_points = <<>>
    /\ animation_timing = NoTiming
    /\ sync_result \in {DurationScaleReport(f) : f \in ScaleFactors}
    /\ spc = "validated"

ScaleNext == ApplySyncCorrections

ScaleSpec == ScaleInit /\ [][ScaleNext]_vars

\* the numeric literals of a script: the durations of its holds and the
\* run_time values of its transitions
Literals(text) == SelectSeq(text, LAMBDA x : x.k = "num")

\* C16: a duration adjustment with factor f multiplies every literal hold
\* duration and every literal run_time of the script by f, written with two
\* decimals.
C16_DurationScaleScalesEveryLiteral ==
    [][ (entry = "scale" /\ spc = "validated")
          => Literals(manim_script')
               = [k \in 1..Len(Literals(manim_script)) |->
                    Num2f(scaled(Literals(manim_script)[k].v,
                                 sync_result.corrections[1].factor))] ]_vars

\* C17: when several checks fail the combined result is tagged with the
\* highest-ranked failing category in the order syntax_error >
\* structural_error > undefined_variables > type_error > runtime_error >
\* timeout_error > import_error.
C17_ErrorTypeFollowsPrecedence ==
    (vpc = "done" /\ ~use_subprocess /\ code.parses /\ ~vresult.is_valid)
        => vresult.error_type
             = IF validate_manim_specific(code).errors # <<>> THEN "structural_error"
               ELSE IF validate_undefined_variables(code).errors # <<>>
               THEN "undefined_variables"
               ELSE IF validate_type_errors(code).errors # <<>> THEN "type_error"
               ELSE IF runtime_result.errors # <<>> THEN runtime_result.error_type
               ELSE "import_error"

(***************************************************************************)
(* SandboxSpec: validate_runtime_errors on scripts given by their          *)
(* module-level statements.                                                *)
(***************************************************************************)
MaxStatements == 2

\* a module-level statement: an import, a class whose construct body is
\* clean or holds a fault, a statement that runs clean, one that raises, or
\* a loop that never ends
Statements ==
    { "import", "class", "class:ZeroDivisionError", "class:AttributeError", "plain",
      "ZeroDivisionError", "AttributeError", "NameError", "loop" }

\* exec(compiled_code, safe_globals, safe_locals): safe_globals has a
\* "__builtins__" with neither __import__ nor __build_class__, so an import
\* statement raises ImportError and a class statement raises NameError; the
\* construct method of a class is never called
RECURSIVE exec_outcome(_)
exec_outcome(stmts) ==
    IF stmts = <<>> THEN "ok"
    ELSE IF Head(stmts) = "import" THEN "OtherError"
    ELSE IF Head(stmts) \in {"class", "class:ZeroDivisionError", "class:AttributeError"}
    THEN "NameError"
    ELSE IF Head(stmts) = "plain" THEN exec_outcome(Tail(stmts))
    ELSE Head(stmts)

SandboxScript(stmts) ==
    [parses |-> TRUE,
     klass |-> IF \E k \in 1..Len(stmts) :
                    stmts[k] \in {"class", "class:ZeroDivisionError", "class:AttributeError"}
               THEN "scene" ELSE "none",
     construct |-> IF \E k \in 1..Len(stmts) :
                    stmts[k] \in {"class", "class:ZeroDivisionError", "class:AttributeError"}
                   THEN "method" ELSE "none",
     imports |-> "ok", body |-> <<>>, calls |-> <<>>,
     run |-> exec_outcome(stmts), danger |-> FALSE, loopText |-> FALSE,
     stmts |-> stmts]

SandboxInit ==
    /\ entry = "sandbox"
    /\ code \in {SandboxScript(s) : s \in SeqsUpTo(Statements, MaxStatements)}
    /\ use_subprocess = FALSE
    /\ vpc = "runtime"
    /\ SandboxIdle
    /\ NoCallers
    /\ current_code = code
    /\ manim_code = code

SandboxNext ==
    \/ RuntimeSetupFails
    \/ TimerStart
    \/ TimerFire
    \/ ExecLoop
    \/ ExecReturn

SandboxSpec == SandboxInit /\ [][SandboxNext]_vars

\* the first fault the statements raise when the script is executed with its
\* imports and classes in place and its construct method run
RECURSIVE FirstFault(_)
FirstFault(stmts) ==
    IF stmts = <<>> THEN "ok"
    ELSE IF Head(stmts) \in {"import", "class", "plain"} THEN FirstFault(Tail(stmts))
    ELSE IF Head(stmts) = "class:ZeroDivisionError" THEN "ZeroDivisionError"
    ELSE IF Head(stmts) = "class:AttributeError" THEN "AttributeError"
    ELSE Head(stmts)

\* C18: sandbox execution returns is_valid = true when the script completes
\* without a fault, and for a fault raised by the script, in the body of
\* construct too, is_valid = false with the fault mapped: attribute fault ->
\* runtime_error, unresolved name -> undefined_variables, arithmetic fault ->
\* runtime_error.
C18_FaultsMappedIntoTaxonomy ==
    (/\ entry = "sandbox"
     /\ vpc = "combine"
     /\ runtime_result.error_type # "validation_error"
     /\ FirstFault(code.stmts) # "loop")
        => LET fault == FirstFault(code.stmts)
           IN  /\ fault = "ok" => runtime_result.is_valid
               /\ fault # "ok"
                    => /\ ~runtime_result.is_valid
                       /\ runtime_result.error_type
                            = IF fault = "NameError" THEN "undefined_variables"
                              ELSE "runtime_error"

\* C21: a sync point is matched exactly when the event closest to its
\* expected time lies within the tolerance; sync_score = matched / number of
\* sync points, 1.0 when there are none; and there is exactly one issue per
\* unmatched sync point, in the order of the sync points, also when the
\* timing model has no event.
C21_SyncPointsScored ==
    (spc = "validated" /\ ~sync_result.error)
        => LET r == sync_result
               missed == Unmatched(r.timing_data.timing_events, sync_points)
               n == Len(sync_points)
           IN  /\ n = 0 => r.sync_score.num = r.sync_score.den
               /\ n > 0 => r.sync_score.num * n = (n - Len(missed)) * r.sync_score.den
               /\ Len(r.sync_issues) = Len(missed)
               /\ \A k \in 1..Len(missed) :
                    /\ r.sync_issues[k].sync_point = missed[k].name
                    /\ r.sync_issues[k].expected_time = missed[k].time

\* one sync point matched at a distance equal to the tolerance, one unmatched
C21_Witness ==
    /\ spc = "validated"
    /\ ~sync_result.error
    /\ Len(sync_points) = 2
    /\ Len(sync_result.sync_issues) = 1
    /\ sync_result.timing_data.timing_events # <<>>
    /\ \E k \in 1..2 :
         /\ sync_points[k].time = tolerance_seconds
         /\ sync_result.sync_issues[1].sync_point # sync_points[k].name
         /\ \A j \in 1..Len(sync_result.timing_data.timing_events) :
              Abs(sync_result.timing_data.timing_events[j].start_time - sync_points[k].time)
                >= tolerance_seconds

\* the duration of the hold that starts at position p of a line, -1 when it
\* is not a numeric literal
HoldAt(line, p) ==
    IF p + 2 <= Len(line) /\ line[p + 1].k = "num" /\ line[p + 2].k = ")"
    THEN line[p + 1].v ELSE -1

\* the durations of the holds of a line, in the order of the line
HoldDurations(line) ==
    LET ps == SelectSeq([q \in 1..Len(line) |-> q], LAMBDA q : line[q].k = "wait(")
    IN  [k \in 1..Len(ps) |-> HoldAt(line, ps[k])]

\* the holds of a script, line by line
HoldsByLine(text) == [ln \in 1..Len(split(text)) |-> HoldDurations(split(text)[ln])]

\* the run_time values of a script that are numeric literals
RunTimes(text) ==
    LET ps == SelectSeq([q \in 1..Len(text) |-> q],
                        LAMBDA q : q > 1 /\ text[q].k = "num" /\ text[q - 1].k = "rt=")
    IN  [k \in 1..Len(ps) |-> text[ps[k]].v]

\* the sync point a correction names
PointNamed(points, name) ==
    points[CHOOSE k \in 1..Len(points) : points[k].name = name]

\* C22: a sync-point adjustment with a non-zero delta changes the duration of
\* exactly one hold, the first hold at or after the affected event, to
\* max(0.1, old duration + delta); no hold gets a duration below 0.1, and
\* every other hold and every transition keeps its duration.
C22_PointShiftChangesOneHold ==
    [][ (/\ entry = "sync"
         /\ spc = "validated"
         /\ Len(sync_result.corrections) = 1
         /\ sync_result.corrections[1].type = "sync_point_adjustment"
         /\ sync_result.corrections[1].adjustment # 0)
          => LET delta == sync_result.corrections[1].adjustment
                 events == sync_result.timing_data.timing_events
                 sp == PointNamed(sync_points, sync_result.corrections[1].sync_point)
                 old == HoldsByLine(manim_script)
                 new == HoldsByLine(manim_script')
                 from == events[closest_event(events, sp.time)].line
                 found == {ln \in from..Len(old) : \E k \in 1..Len(old[ln]) : old[ln][k] # -1}
             IN  /\ Len(new) = Len(old)
                 /\ \A ln \in 1..Len(old) : Len(new[ln]) = Len(old[ln])
                 /\ RunTimes(manim_script') = RunTimes(manim_script)
                 /\ \A ln \in 1..Len(new) : \A k \in 1..Len(new[ln]) :
                      new[ln][k] = -1 \/ new[ln][k] >= min_wait
                 /\ Cardinality({<<ln, k>> \in (1..Len(old)) \X (1..MaxOps) :
                                   k <= Len(old[ln]) /\ new[ln][k] # old[ln][k]}) <= 1
                 /\ found # {}
                      => LET ln == CHOOSE ln \in found : \A j \in found : ln <= j
                             k == CHOOSE k \in 1..Len(old[ln]) :
                                      /\ old[ln][k] # -1
                                      /\ \A j \in 1..k - 1 : old[ln][j] = -1
                         IN  new[ln][k] = IF old[ln][k] + delta > min_wait
                                         THEN old[ln][k] + delta ELSE min_wait ]_vars

(***************************************************************************)
(* FrameSpec: apply_corrections with one correction, on scripts that also  *)
(* have a comment that quotes a hold and a call, not a transition, with a  *)
(* run_time keyword.                                                       *)
(***************************************************************************)
MaxLines == 2

CommentedHold == <<Tok("#"), Tok("wait("), Num(100), Tok(")")>>

OtherCall == <<Tok("x"), Tok("("), Tok("rt="), Num(150), Tok(")")>>

RECURSIVE FrameTexts(_)
FrameTexts(n) ==
    IF n = 0 THEN {<<>>}
    ELSE IF n = 1 THEN OpForms \cup {CommentedHold, OtherCall}
    ELSE {s \o sep \o op : s \in FrameTexts(n - 1), sep \in Separators,
                           op \in OpForms \cup {CommentedHold, OtherCall}}

FrameScripts == UNION {FrameTexts(n) : n \in 0..MaxLines}

\* a report whose only correction is c
OneCorrectionReport(c) ==
    SyncReport(Frac(0, 1), Frac(0, 1), Frac(0, 1), NoTiming, <<>>, <<c>>, FALSE, FALSE)

FrameCorrections ==
    { Correction("duration_adjustment", Frac(5, 2), "-", 0),
      Correction("sync_point_adjustment", Frac(1, 1), "c", 50),
      Correction("global_speed_adjustment", Frac(2, 1), "-", 0) }

FrameInit ==
    /\ entry = "frame"
    /\ ValidatorIdle
    /\ JobOff
    /\ manim_script \in FrameScripts
    /\ audio_data = 0
    /\ sync_points = <<>>
    /\ animation_timing = NoTiming
    /\ sync_result \in {OneCorrectionReport(c) : c \in FrameCorrections}
    /\ spc = "validated"

FrameNext == ApplySyncCorrections

FrameSpec == FrameInit /\ [][FrameNext]_vars

\* the script with the duration argument of every hold and the run_time
\* value of every transition blanked; a "#" starts a comment that ends with
\* its line, a transition ends with its line or at a ";"
RECURSIVE Frame(_, _, _, _)
Frame(text, p, in_comment, in_play) ==
    IF p > Len(text) THEN <<>>
    ELSE IF text[p].k = "#" THEN <<text[p]>> \o Frame(text, p + 1, TRUE, FALSE)
    ELSE IF text[p].k = "nl" THEN <<text[p]>> \o Frame(text, p + 1, FALSE, FALSE)
    ELSE IF text[p].k = "sep" THEN <<text[p]>> \o Frame(text, p + 1, in_comment, FALSE)
    ELSE IF ~in_comment /\ text[p].k = "wait(" /\ FirstClose(text, p + 1) <= Len(text)
    THEN <<text[p], Tok("duration")>>
           \o Frame(text, FirstClose(text, p + 1), FALSE, FALSE)
    ELSE IF ~in_comment /\ text[p].k = "play(" THEN <<text[p]>> \o Frame(text, p + 1, FALSE, TRUE)
    ELSE IF in_play /\ text[p].k = "rt="
    THEN <<text[p], Tok("duration")>>
           \o Frame(text, FirstCommaOrClose(text, p + 1), FALSE, TRUE)
    ELSE <<text[p]>> \o Frame(text, p + 1, in_comment, in_play)

\* C23: apply_corrections changes only timing literals of holds and
\* transitions: every part of the script that is not the duration argument
\* of a hold or the run_time value of a transition is the same in the
\* output, and nothing of the script but a numeric literal is evaluated
\* while rewriting.
C23_OnlyTimingLiteralsChange ==
    [][ (entry = "frame" /\ spc = "validated")
          => /\ Frame(manim_script', 1, FALSE, FALSE) = Frame(manim_script, 1, FALSE, FALSE)
             /\ \A k \in 1..Len(evaluated(manim_script, sync_result.corrections)) :
                  float_eval(evaluated(manim_script, sync_result.corrections)[k]).ok ]_vars

(***************************************************************************)
(* CallSpec: validate_type_errors on every script of up to MaxCalls calls. *)
(***************************************************************************)
MaxCalls == 2

CallChoices ==
    { Call("Text", "name", 0, 0), Call("Text", "name", 1, 0), Call("Text", "name", 0, 1),
      Call("Write", "name", 0, 0), Call("Write", "name", 0, 1),
      Call("FadeIn", "name", 1, 1), Call("Text", "attribute", 0, 0),
      Call("Circle", "name", 0, 0) }

CallScript(calls) ==
    [parses |-> TRUE, klass |-> "scene", construct |-> "method", imports |-> "ok",
     body |-> <<>>, calls |-> calls, run |-> "ok", danger |-> FALSE, loopText |-> FALSE]

CallInit ==
    /\ entry = "calls"
    /\ code \in {CallScript(c) : c \in SeqsUpTo(CallChoices, MaxCalls)}
    /\ use_subprocess = FALSE
    /\ vpc = "calls"
    /\ SandboxIdle
    /\ NoCallers
    /\ current_code = code
    /\ manim_code = code

CheckCalls ==
    /\ vpc = "calls"
    /\ vresult' = validate_type_errors(code)
    /\ vpc' = "done"
    /\ UNCHANGED <<code, use_subprocess, timer, tick, runtime_result>>
    /\ UNCHANGED callers

CallNext == CheckCalls

CallSpec == CallInit /\ [][CallNext]_vars

\* the calls of a critical constructor or operation that supply no argument
\* at all
WithoutArguments(calls) ==
    SelectSeq(calls, LAMBDA c :
        /\ c.func \in {"Text", "MathTex", "Write", "Create", "FadeIn", "FadeOut"}
        /\ c.args = 0
        /\ c.keywords = 0)

\* C24: the call-shape check flags a call of Text, MathTex, Write, Create,
\* FadeIn or FadeOut as a type_error exactly when the call supplies no
\* argument at all; a call with a positional or a keyword argument is never
\* flagged.
C24_FlaggedIffNoArgument ==
    (entry = "calls" /\ vpc = "done")
        => /\ Len(vresult.errors) = Len(WithoutArguments(code.calls))
           /\ \A k \in 1..Len(vresult.errors) :
                k <= Len(WithoutArguments(code.calls))
                  => vresult.errors[k].arg = WithoutArguments(code.calls)[k].func
           /\ (vresult.error_type = "type_error") <=> (WithoutArguments(code.calls) # <<>>)

\* C25: the combined result of the static path holds every distinct error
\* of every check exactly once: identical errors are deduplicated, so no
\* element of the combined error list is repeated.
C25_ErrorsDeduplicated ==
    (entry = "validate" /\ vpc = "done" /\ ~use_subprocess /\ code.parses)
        => /\ \A k \in 1..Len(validate_type_errors(code).errors) :
                \E j \in 1..Len(vresult.errors) :
                    vresult.errors[j] = validate_type_errors(code).errors[k]
           /\ \A j, k \in 1..Len(vresult.errors) :
                j # k => vresult.errors[j] # vresult.errors[k]

\* C28: validate_and_regenerate_manim_code called with max_attempts = 0
\* terminates normally too: it does not raise and returns the input script
\* with a ValidationResult.
C28_ZeroAttemptsReturns ==
    (entry = "verify" /\ max_attempts = 0)
        => /\ rpc # "raised"
           /\ rpc = "returned" => (current_code = manim_code /\ validation_result # NoResult)

(***************************************************************************)
(* PatternSpec: validate_undefined_variables on the scripts that reference *)
(* the common pattern name color and have up to MaxEvents further events.  *)
(***************************************************************************)
PatternInit ==
    /\ entry = "patterns"
    /\ code \in {SymbolScript(<<Ev("load", "color")>> \o b) : b \in Bodies}
    /\ use_subprocess = FALSE
    /\ vpc = "symbols"
    /\ SandboxIdle
    /\ NoCallers
    /\ current_code = code
    /\ manim_code = code

PatternNext == CheckSymbols

PatternSpec == PatternInit /\ [][PatternNext]_vars

\* C30: a script whose only unresolved names are common Manim pattern names
\* is reported valid: those names produce warnings only, never an error, and
\* error_type is not undefined_variables.
C30_PatternNamesOnlyWarn ==
    (/\ entry = "patterns"
     /\ vpc = "done"
     /\ UnboundReferences(code.body) # {}
     /\ \A n \in UnboundReferences(code.body) : Lower(n) \in common_patterns)
        => /\ vresult.is_valid
           /\ vresult.errors = <<>>
           /\ vresult.error_type # "undefined_variables"
           /\ \A n \in UnboundReferences(code.body) :
                \E k \in 1..Len(vresult.warnings) : vresult.warnings[k].arg = n

\* C26: when the corrections of a report hold a duration adjustment with a
\* factor f = target / total_duration other than 1 (here for a target above
\* 0), applying the whole list
\* leaves every literal run_time, and without a point shift every literal
\* hold duration too, scaled by f, up to a hundredth of rounding: the other
\* corrections of the list do not cancel the scaling.
C26_DurationScalingSurvives ==
    [][ (/\ entry = "sync"
         /\ spc = "validated"
         /\ ~sync_result.error
         /\ sync_result.timing_data.total_duration > 0
         /\ audio_data > 0
         /\ OfType(sync_result.corrections, "duration_adjustment") # <<>>
         /\ audio_data # sync_result.timing_data.total_duration)
          => LET f == Frac(audio_data, sync_result.timing_data.total_duration)
                 shifted == \E k \in 1..Len(sync_result.corrections) :
                               /\ sync_result.corrections[k].type = "sync_point_adjustment"
                               /\ sync_result.corrections[k].adjustment # 0
                 old == RunTimes(manim_script)
                 new == RunTimes(manim_script')
             IN  /\ Len(new) = Len(old)
                 /\ \A k \in 1..Len(old) : Abs(new[k] - scaled(old[k], f)) <= 1
                 /\ ~shifted
                      => /\ Len(Literals(manim_script')) = Len(Literals(manim_script))
                         /\ \A k \in 1..Len(Literals(manim_script)) :
                              Abs(Literals(manim_script')[k].v
                                    - scaled(Literals(manim_script)[k].v, f)) <= 1 ]_vars

\* the script after the first n corrections of a list, each applied on its
\* own to the result of the one before, and whether one of them failed
RECURSIVE InListOrder(_, _, _)
InListOrder(text, corrections, n) ==
    IF n = 0 THEN Applied(FALSE, text)
    ELSE LET before == InListOrder(text, corrections, n - 1)
             step == apply_each(before.code, <<corrections[n]>>)
         IN  IF before.raised THEN before
             ELSE Applied(step.raised, step.code)

\* C27: apply_corrections is all-or-nothing: it returns the script with
\* every correction of the list applied in list order, or, when applying
\* one of them fails, the original script with none of the earlier
\* corrections retained.
C27_AllOrNothing ==
    [][ (entry = "sync" /\ spc = "validated" /\ spc' = "render")
          => LET all == InListOrder(manim_script, sync_result.corrections,
                                    Len(sync_result.corrections))
             IN  manim_script' = IF all.raised THEN manim_script ELSE all.code ]_vars

\* a later correction failed after the first one had changed the script, and
\* the original script is what was handed on
C27_Witness ==
    /\ entry = "sync"
    /\ spc = "render"
    /\ Len(sync_result.corrections) >= 2
    /\ ~InListOrder(manim_script, sync_result.corrections, 1).raised
    /\ InListOrder(manim_script, sync_result.corrections, 1).code # manim_script
    /\ InListOrder(manim_script, sync_result.corrections, Len(sync_result.corrections)).raised

(***************************************************************************)
(* The render server: a /process request (process_document) and a /cancel  *)
(* request (cancel_job) for the same job.  Both write the job's row        *)
(* through supabase_client.update_job, an unconditional                    *)
(* "update(updates).eq('id', job_id)"; a step is one such write together   *)
(* with the work of the handler that follows it.                           *)
(***************************************************************************)
MaxSections == 2

\* update_progress: "progress = max(0, min(100, progress))"
clamp_progress(progress) ==
    IF progress < 0 THEN 0 ELSE IF progress > 100 THEN 100 ELSE progress

\* update_progress: "Auto-update status based on progress"
progress_status(progress) ==
    IF clamp_progress(progress) = 0 THEN "pending"
    ELSE IF clamp_progress(progress) = 100 THEN "completed"
    ELSE "processing"

\* ProgressTracker.update_progress(job_id, progress, message)
update_progress(progress) ==
    /\ job_progress' = clamp_progress(progress)
    /\ job_status' = progress_status(progress)

\* ProgressTracker.update_job_status(job_id, status, message)
update_job_status(status) ==
    /\ job_status' = status
    /\ UNCHANGED job_progress

JobInit ==
    /\ entry = "job"
    /\ ValidatorIdle
    /\ SyncOff
    /\ job_status = "pending"
    /\ job_progress = 0
    /\ total_sections = 0
    /\ section_index = 0
    /\ ppc = "start"
    /\ cpc = "cancel"

\* "progress_tracker.update_job_status(job_id, 'processing', ...)"
StartProcessing ==
    /\ ppc = "start"
    /\ update_job_status("processing")
    /\ ppc' = "download"
    /\ UNCHANGED <<total_sections, section_index, cpc>>
    /\ UNCHANGED <<vvars, entry, svars, rvars, gvars, wvars>>

\* "progress_tracker.update_progress(job_id, 10, 'Downloading and parsing PDF...')"
DownloadProgress ==
    /\ ppc = "download"
    /\ update_progress(10)
    /\ ppc' = "parse"
    /\ UNCHANGED <<total_sections, section_index, cpc>>
    /\ UNCHANGED <<vvars, entry, svars, rvars, gvars, wvars>>

\* download_pdf and parse_into_sections return the sections
ParseSections ==
    /\ ppc = "parse"
    /\ \E n \in 0..MaxSections : total_sections' = n
    /\ section_index' = 0
    /\ ppc' = IF total_sections' = 0 THEN "assemble" ELSE "section"
    /\ UNCHANGED <<job_status, job_progress, cpc>>
    /\ UNCHANGED <<vvars, entry, svars, rvars, gvars, wvars>>

\* one iteration of "for i, section in enumerate(sections)": the progress
\* update, then process_section
ProcessSection ==
    /\ ppc = "section"
    /\ update_progress(20 + (section_index * 60) \div total_sections)
    /\ section_index' = section_index + 1
    /\ ppc' = IF section_index' < total_sections THEN "section" ELSE "assemble"
    /\ UNCHANGED <<total_sections, cpc>>
    /\ UNCHANGED <<vvars, entry, svars, rvars, gvars, wvars>>

\* "progress_tracker.update_progress(job_id, 85, 'Assembling final video...')"
AssembleVideo ==
    /\ ppc = "assemble"
    /\ update_progress(85)
    /\ ppc' = "upload"
    /\ UNCHANGED <<total_sections, section_index, cpc>>
    /\ UNCHANGED <<vvars, entry, svars, rvars, gvars, wvars>>

\* "progress_tracker.update_progress(job_id, 95, 'Uploading final video...')"
UploadVideo ==
    /\ ppc = "upload"
    /\ update_progress(95)
    /\ ppc' = "complete"
    /\ UNCHANGED <<total_sections, section_index, cpc>>
    /\ UNCHANGED <<vvars, entry, svars, rvars, gvars, wvars>>

\* "supabase_client.update_job(job_id, {'status': 'completed', ...})"
MarkCompleted ==
    /\ ppc = "complete"
    /\ job_status' = "completed"
    /\ ppc' = "finish"
    /\ UNCHANGED <<job_progress, total_sections, section_index, cpc>>
    /\ UNCHANGED <<vvars, entry, svars, rvars, gvars, wvars>>

\* "progress_tracker.update_progress(job_id, 100, 'Animation complete!')"
FinishProgress ==
    /\ ppc = "finish"
    /\ update_progress(100)
    /\ ppc' = "done"
    /\ UNCHANGED <<total_sections, section_index, cpc>>
    /\ UNCHANGED <<vvars, entry, svars, rvars, gvars, wvars>>

\* the work before the next write raised: "except Exception as e" marks the
\* job failed
ProcessingFails ==
    /\ ppc \in {"parse", "section", "assemble", "upload", "complete"}
    /\ update_job_status("failed")
    /\ ppc' = "done"
    /\ UNCHANGED <<total_sections, section_index, cpc>>
    /\ UNCHANGED <<vvars, entry, svars, rvars, gvars, wvars>>

\* cancel_job: "supabase_client.update_job(job_id, {'status': 'cancelled', ...})"
CancelJob ==
    /\ cpc = "cancel"
    /\ job_status' = "cancelled"
    /\ cpc' = "cleanup"
    /\ UNCHANGED <<job_progress, total_sections, section_index, ppc>>
    /\ UNCHANGED <<vvars, entry, svars, rvars, gvars, wvars>>

\* cancel_job: manim_generator.cleanup_job and video_assembler.cleanup_job
\* remove the job's temporary files, then the request answers
CleanupJob ==
    /\ cpc = "cleanup"
    /\ cpc' = "done"
    /\ UNCHANGED <<job_status, job_progress, total_sections, section_index, ppc>>
    /\ UNCHANGED <<vvars, entry, svars, rvars, gvars, wvars>>

JobNext ==
    \/ StartProcessing
    \/ DownloadProgress
    \/ ParseSections
    \/ ProcessSection
    \/ AssembleVideo
    \/ UploadVideo
    \/ MarkCompleted
    \/ FinishProgress
    \/ ProcessingFails
    \/ CancelJob
    \/ CleanupJob

JobSpec == JobInit /\ [][JobNext]_vars

\* C29: once cancel_job has set the status of the job to 'cancelled', no
\* later write of the running process_document changes it.
C29_CancelledStays == [][job_status = "cancelled" => job_status' = "cancelled"]_vars

=============================================================================
